---- MODULE Spec2Model ----
(***************************************************************************)
(* Lineup / odds merge engine of nba-live: the game_lineups table of one   *)
(* game, the team rosters (team_depth_charts), and the operations that     *)
(* write them: roster import, lineup import (by date and from a dict) and  *)
(* the odds merge.                                                         *)
(*                                                                         *)
(* Conventions.  A Python Optional / SQL NULL value is a sequence of       *)
(* length <= 1: << >> is None/NULL, <<v>> is the value v.  A name is a     *)
(* sequence of one-character strings.  A similarity is a fraction          *)
(* <<numerator, denominator>>.                                             *)
(***************************************************************************)
EXTENDS Integers, Sequences, FiniteSets, TLC

\* ------------------------------------------------------------------ bounds
\* Lineup payloads fill positions among the first NumPositions of
\* PayloadOrder.
NumPositions == 2
\* An odds payload carries at most MaxQuotes player quotes.
MaxQuotes == 1
\* A run is at most MaxSteps operations long.
MaxSteps == 3
\* Operations run on the tables before a pipeline starts.
MaxPrelude == 1

\* ------------------------------------------------------------- characters
None == << >>
Some(v) == <<v>>

\* unicodedata.normalize('NFD', c) followed by dropping category Mn.
StripAccent(c) ==
    CASE c = "ó" -> "o"
      [] c = "é" -> "e"
      [] c = "É" -> "E"
      [] OTHER -> c

\* str.lower() on one character.
LowerChar(c) ==
    CASE c = "B" -> "b"
      [] c = "D" -> "d"
      [] c = "E" -> "e"
      [] c = "É" -> "é"
      [] c = "K" -> "k"
      [] c = "S" -> "s"
      [] c = "T" -> "t"
      [] c = "Z" -> "z"
      [] OTHER -> c

IsSpace(c) == c = " "

RECURSIVE MapSeq(_, _)
MapSeq(Op(_), s) ==
    IF s = << >> THEN << >> ELSE <<Op(Head(s))>> \o MapSeq(Op, Tail(s))

RECURSIVE FilterSeq(_, _)
FilterSeq(Keep(_), s) ==
    IF s = << >> THEN << >>
    ELSE (IF Keep(Head(s)) THEN <<Head(s)>> ELSE << >>) \o FilterSeq(Keep, Tail(s))

StripAccents(s) == MapSeq(StripAccent, s)
Lower(s) == MapSeq(LowerChar, s)

\* str.strip(): leading and trailing whitespace removed.
RECURSIVE LStrip(_)
LStrip(s) == IF s # << >> /\ IsSpace(Head(s)) THEN LStrip(Tail(s)) ELSE s
RECURSIVE RStrip(_)
RStrip(s) ==
    IF s # << >> /\ IsSpace(s[Len(s)]) THEN RStrip(SubSeq(s, 1, Len(s) - 1)) ELSE s
Strip(s) == RStrip(LStrip(s))

\* " ".join(s.split()): runs of whitespace collapsed to one space, ends trimmed.
RECURSIVE CollapseRuns(_)
CollapseRuns(s) ==
    IF Len(s) < 2 THEN s
    ELSE IF IsSpace(s[1]) /\ IsSpace(s[2]) THEN CollapseRuns(Tail(s))
    ELSE <<s[1]>> \o CollapseRuns(Tail(s))
CollapseWhitespace(s) == CollapseRuns(Strip(s))

RemoveApostrophes(s) == FilterSeq(LAMBDA c : c # "'", s)

\* The normalization without its lower-casing.
normalize_keeping_case(name) == Strip(StripAccents(name))

\* lineup_service.normalize_player_name
normalize_player_name(name) == Strip(Lower(StripAccents(name)))

\* odds_service.normalize_player_name_for_matching and
\* _find_matching_player_in_list.normalize_name (the same text)
normalize_name(name) ==
    Lower(CollapseWhitespace(RemoveApostrophes(StripAccents(name))))

\* odds_service._match_players_with_odds.normalize_player_name_for_matching
normalize_player_name_for_matching(name) ==
    Lower(CollapseWhitespace(RemoveApostrophes(StripAccents(name))))

\* ------------------------------------------------- difflib.SequenceMatcher
\* The longest block a[i..i+k-1] = b[j..j+k-1] inside a[alo..ahi], b[blo..bhi]
\* (1-based, inclusive); of the longest, the one earliest in a, then in b.
BlockLen(a, b, i, j, ahi, bhi) ==
    LET RECURSIVE Run(_)
        Run(k) == IF i + k <= ahi /\ j + k <= bhi /\ a[i + k] = b[j + k]
                  THEN Run(k + 1) ELSE k
    IN Run(0)

Blocks(a, b, alo, ahi, blo, bhi) ==
    {<<i, j, BlockLen(a, b, i, j, ahi, bhi)>> : i \in alo..ahi, j \in blo..bhi}
LongestLen(blocks) ==
    IF blocks = {} THEN 0
    ELSE CHOOSE k \in {c[3] : c \in blocks} : \A c \in blocks : c[3] <= k
Earliest(longest) ==
    CHOOSE c \in longest :
        \A d \in longest : c[1] < d[1] \/ (c[1] = d[1] /\ c[2] <= d[2])
find_longest_match(a, b, alo, ahi, blo, bhi) ==
    CHOOSE m \in UNION {
        {IF best = 0 THEN <<alo, blo, 0>>
         ELSE Earliest({c \in blocks : c[3] = best}) : best \in {LongestLen(blocks)}}
        : blocks \in {Blocks(a, b, alo, ahi, blo, bhi)}} : TRUE

\* get_matching_blocks: the longest block m, then the same to its left and
\* to its right.
RECURSIVE MatchCount(_, _, _, _, _, _)
RECURSIVE MatchAround(_, _, _, _, _, _, _)
MatchAround(a, b, alo, ahi, blo, bhi, m) ==
    IF m[3] = 0 THEN 0
    ELSE m[3]
         + MatchCount(a, b, alo, m[1] - 1, blo, m[2] - 1)
         + MatchCount(a, b, m[1] + m[3], ahi, m[2] + m[3], bhi)
MatchCount(a, b, alo, ahi, blo, bhi) ==
    IF alo > ahi \/ blo > bhi THEN 0
    ELSE CHOOSE n \in {MatchAround(a, b, alo, ahi, blo, bhi, m) :
                          m \in {find_longest_match(a, b, alo, ahi, blo, bhi)}} : TRUE

\* SequenceMatcher(None, a, b).ratio() = 2*M/T, and 1.0 when T = 0.
SequenceRatio(a, b) ==
    IF Len(a) + Len(b) = 0 THEN <<1, 1>>
    ELSE <<2 * MatchCount(a, b, 1, Len(a), 1, Len(b)), Len(a) + Len(b)>>

RatGT(x, y) == x[1] * y[2] > y[1] * x[2]
RatGE(x, y) == x[1] * y[2] >= y[1] * x[2]
RatMax(x, y) == IF RatGT(y, x) THEN y ELSE x

\* Python's `x in y` on strings: x occurs in y as a contiguous block.
Contains(y, x) ==
    \E i \in 0..(Len(y) - Len(x)) : \A k \in 1..Len(x) : y[i + k] = x[k]

\* ------------------------------------------------------------------ world
\* One game of the schedule (games table): game_id G, home LAL, away BOS,
\* game_date GameDate.  OtherDate is the day after; no game is played on it.
HomeTeam == "LAL"
AwayTeam == "BOS"
Teams == {HomeTeam, AwayTeam}
GameDate == <<"2", "0", "2", "5", "-", "0", "1", "-", "0", "9">>
OtherDate == <<"2", "0", "2", "5", "-", "0", "1", "-", "1", "0">>
Dates == {GameDate, OtherDate}
\* GameRepository.get_games_by_date(date), as a set of game ids.
get_games_by_date(date) == IF date = GameDate THEN {"G"} ELSE {}

POSITIONS == <<"PG", "SG", "SF", "PF", "C">>
PositionSet == {POSITIONS[i] : i \in 1..Len(POSITIONS)}
STARTER == "STARTER"
BENCH == "BENCH"

\* f'BENCH-{player_id}'
BenchPosition(player_id) == "BENCH-" \o ToString(player_id)

\* Names as the three providers spell them.
Kent == <<"K", "e", "n", "t">>
KentFN == <<"K", "é", "n", "t">>
Kant == <<"K", "a", "n", "t">>
DaNBA == <<"D", "'", "a">>
Da == <<"D", "a">>
Zo == <<"Z", "o">>
Bo == <<"B", "o">>

Player(id, name) == [player_id |-> id, player_name |-> name]

\* The roster the NBA API serves for a team (commonteamroster), with the
\* official ids and spellings.
NbaRoster(team) ==
    IF team = HomeTeam THEN <<Player(1, Kent), Player(2, DaNBA)>>
    ELSE <<Player(4, Zo)>>

\* What nba_api.get_team_players can answer: nothing, or the roster.
RosterOptions(team) == {<< >>, NbaRoster(team)}
\* team_lineups[team][position] = {name, playerId, confirmed}
Entry(name, id, confirmed) == [name |-> name, playerId |-> id, confirmed |-> confirmed]
\* The players FantasyNerds can name for a team, as (name, playerId); its
\* ids are its own.  It has published the home team's lineup only.
LineupNames(team) ==
    IF team = HomeTeam THEN {<<KentFN, 8>>, <<Da, 7>>} ELSE {}
\* A body posted to the import endpoint may also carry official ids.
DictNames(team) ==
    IF team = HomeTeam THEN {<<Kent, 1>>, <<Da, 7>>} ELSE {}

\* Local game-log rows per player id (player_game_logs), as loaded beforehand.
LocalGames(player_id) == IF player_id = 1 THEN 3 ELSE 0

RECURSIVE FoldSeq(_, _, _)
FoldSeq(Op(_, _), acc, s) ==
    IF s = << >> THEN acc ELSE FoldSeq(Op, Op(acc, Head(s)), Tail(s))

\* ------------------------------------------------- game_lineups statements
\* A row of game_lineups for the game; UNIQUE KEY (game_id, team_abbr,
\* position, lineup_date).
Row(team, date, position, id, name, confirmed, status, pts, ast, reb, ouh) ==
    [team |-> team, lineup_date |-> date, position |-> position,
     player_id |-> id, player_name |-> name, confirmed |-> confirmed,
     player_status |-> status, points_line |-> pts, assists_line |-> ast,
     rebounds_line |-> reb, over_under_history |-> ouh]

KeyOf(r) == <<r.team, r.position, r.lineup_date>>
RowsAt(R, team, date, position) ==
    {r \in R : r.team = team /\ r.lineup_date = date /\ r.position = position}

\* COALESCE(VALUES(points_line), points_line)
Coalesce(new, old) == IF new # None THEN new ELSE old

\* LineupRepository.save_lineup_for_game: INSERT ... ON DUPLICATE KEY UPDATE
\* with player_status = CASE WHEN player_status = 'STARTER' THEN 'STARTER'
\* ELSE VALUES(player_status) END.
save_lineup_for_game(R, date, team, position, id, name, confirmed, status, pts) ==
    LET old == RowsAt(R, team, date, position)
    IN IF old = {}
       THEN R \cup {Row(team, date, position, id, name, confirmed, status,
                        pts, None, None, None)}
       ELSE (R \ old) \cup
            {[r EXCEPT !.player_id = id, !.player_name = name,
                       !.confirmed = confirmed,
                       !.player_status =
                           IF r.player_status = STARTER THEN STARTER ELSE status,
                       !.points_line = Coalesce(pts, r.points_line)] : r \in old}

\* LineupRepository.save_bench_player_for_game: position 'BENCH-<id>',
\* every column overwritten on a duplicate key.
save_bench_player_for_game(R, date, team, id, name, pts, ast, reb, ouh) ==
    (R \ RowsAt(R, team, date, BenchPosition(id))) \cup
    {Row(team, date, BenchPosition(id), id, name, FALSE, BENCH, pts, ast, reb, ouh)}

\* An UPDATE of the lines that sets player_status as well.
update_lines_and_status(R, date, team, id, pts, ast, reb, ouh) ==
    {IF r.team = team /\ r.lineup_date = date /\ r.player_id = id
     THEN [r EXCEPT !.points_line = pts, !.assists_line = ast,
                    !.rebounds_line = reb, !.player_status = BENCH]
     ELSE r : r \in R}

\* LineupRepository.update_points_line_for_player: UPDATE ... WHERE game_id,
\* lineup_date, team_abbr, player_id; over_under_history is set only when
\* one is given.
update_points_line_for_player(R, date, team, id, pts, ast, reb, ouh) ==
    {IF r.team = team /\ r.lineup_date = date /\ r.player_id = id
     THEN [r EXCEPT !.points_line = pts, !.assists_line = ast,
                    !.rebounds_line = reb,
                    !.over_under_history =
                        IF ouh # None THEN ouh ELSE r.over_under_history]
     ELSE r : r \in R}

\* LineupRepository.delete_lineups_for_team_game
delete_lineups_for_team_game(R, date, team) ==
    {r \in R : ~(r.team = team /\ r.lineup_date = date)}

\* ------------------------------------------------------------ lineup import
\* Every operation threads acc = [rows, log]: the table and the set of log
\* lines (by kind) it has written.
Acc(R, log) == [rows |-> R, log |-> log]

\* nba_players_map.get(key): the map is filled in roster order, so the last
\* roster player with that normalized name is the one kept.
nba_players_map_get(depth_chart_players, key) ==
    LET idx == {i \in 1..Len(depth_chart_players) :
                   /\ depth_chart_players[i].player_name # << >>
                   /\ normalize_player_name(depth_chart_players[i].player_name) = key}
    IN IF idx = {} THEN None
       ELSE Some(depth_chart_players[CHOOSE i \in idx : \A j \in idx : j <= i])

\* One committed statement of the lineup import.
Statement(op, team, lineup_date, position, id, name, confirmed) ==
    [op |-> op, team |-> team, lineup_date |-> lineup_date, position |-> position,
     player_id |-> id, player_name |-> name, confirmed |-> confirmed]
Execute(R, s) ==
    CASE s.op = "delete_lineups_for_team_game" ->
            delete_lineups_for_team_game(R, s.lineup_date, s.team)
      [] s.op = "save_lineup_for_game" ->
            save_lineup_for_game(R, s.lineup_date, s.team, s.position, s.player_id,
                                 s.player_name, s.confirmed, STARTER, None)
      [] s.op = "save_bench_player_for_game" ->
            save_bench_player_for_game(R, s.lineup_date, s.team, s.player_id,
                                       s.player_name, None, None, None, None)

\* A payload entry whose name the roster has: saved under the official id.
MatchedStarter(team, lineup_date, position, player_data, matched_nba_player) ==
    <<Statement("save_lineup_for_game", team, lineup_date, position,
                matched_nba_player.player_id, matched_nba_player.player_name,
                player_data.confirmed)>>
\* An entry that is left out.
NoStarter(team, lineup_date, position, player_data) == << >>
\* A payload entry whose name the roster does not have: saved under the
\* payload's own id, when it has one.
UnmatchedStarter(team, lineup_date, position, player_data) ==
    IF player_data.playerId > 0
    THEN <<Statement("save_lineup_for_game", team, lineup_date, position,
                     player_data.playerId, player_data.name, player_data.confirmed)>>
    ELSE << >>

\* The body of the `for team_abbr in [home_team, away_team]` loop of
\* LineupService._save_lineups_with_depth_chart: the log lines it writes and
\* the statements it issues, in order (delete, the starters by position, the
\* rest of the roster as BENCH).
TeamImport(team, ros, lineup_date, team_lineups) ==
    LET depth_chart_players == ros[team]
        fantasy_lineup == team_lineups[team]
        named == {pos \in DOMAIN fantasy_lineup \cap PositionSet :
                     fantasy_lineup[pos].name # << >>}
        matched(pos) == nba_players_map_get(depth_chart_players,
                            normalize_player_name(fantasy_lineup[pos].name))
        hits == {pos \in named : matched(pos) # None}
        misses == named \ hits
        starter_nba_ids == {matched(pos)[1].player_id : pos \in hits}
        starter(pos) ==
            IF pos \in hits
            THEN MatchedStarter(team, lineup_date, pos, fantasy_lineup[pos],
                                matched(pos)[1])
            ELSE IF pos \in misses
            THEN UnmatchedStarter(team, lineup_date, pos, fantasy_lineup[pos])
            ELSE << >>
        bench(nba_player) ==
            Statement("save_bench_player_for_game", team, lineup_date,
                      BenchPosition(nba_player.player_id), nba_player.player_id,
                      nba_player.player_name, FALSE)
        log0 == IF depth_chart_players = << >> THEN {"no_roster"} ELSE {}
        log1 == log0 \cup (IF hits # {} THEN {"matched_starter"} ELSE {})
                     \cup (IF misses # {} THEN {"no_roster_match"} ELSE {})
    IN IF DOMAIN fantasy_lineup = {}
       THEN [log |-> log0 \cup {"team_skipped"}, statements |-> << >>]
       ELSE [log |-> log1,
             statements |->
                 <<Statement("delete_lineups_for_team_game", team, lineup_date,
                             "", 0, << >>, FALSE)>>
                 \o FoldSeq(LAMBDA saves, pos : saves \o starter(pos), << >>, POSITIONS)
                 \o MapSeq(bench,
                           FilterSeq(LAMBDA q : q.player_id \notin starter_nba_ids,
                                     depth_chart_players))]
SaveTeamWithDepthChart(acc, team, ros, lineup_date, team_lineups) ==
    LET todo == TeamImport(team, ros, lineup_date, team_lineups)
    IN Acc(FoldSeq(Execute, acc.rows, todo.statements), acc.log \cup todo.log)

\* LineupService._save_lineups_with_depth_chart
\* (depth_chart_players = depth_chart_service.get_players_by_team(team)).
save_lineups_with_depth_chart(R, ros, lineup_date, team_lineups) ==
    FoldSeq(LAMBDA acc, team :
                SaveTeamWithDepthChart(acc, team, ros, lineup_date, team_lineups),
            Acc(R, {}), <<HomeTeam, AwayTeam>>)

\* ------------------------------------------- save_lineups_for_game (dict)
\* unique_lineup holds in S (S is a set of rows of one game).
UniqueKeys(S) == \A r1, r2 \in S : KeyOf(r1) = KeyOf(r2) => r1 = r2

\* UPDATE game_lineups SET ... over the rows `targets`.  A row that lands on
\* the key of another row raises a duplicate-key error; InnoDB then rolls
\* the statement back and the transaction goes on.
Update(R, targets, Set(_)) ==
    LET new == (R \ targets) \cup {Set(r) : r \in targets}
    IN IF UniqueKeys(new) /\ Cardinality(new) = Cardinality(R)
       THEN [ok |-> TRUE, rows |-> new]
       ELSE [ok |-> FALSE, rows |-> R]

\* The body of the `for position, player_data in positions.items()` loop of
\* LineupRepository.save_lineups_for_game; an exception skips the rest of
\* the entry (`except Exception: continue`).
SaveLineupEntry(acc, lineup_date, team, position, player_data) ==
    LET R == acc.rows
        player_id == player_data.playerId
        mine(S) == {r \in S : r.team = team /\ r.lineup_date = lineup_date}
        promote == IF player_data.confirmed /\ player_id > 0
                   THEN Update(R, {r \in mine(R) :
                                     /\ r.player_id = player_id
                                     /\ (r.position = BENCH \/ r.player_status = BENCH)},
                               LAMBDA r : [r EXCEPT !.position = position,
                                                    !.player_status = STARTER,
                                                    !.confirmed = TRUE])
                   ELSE [ok |-> TRUE, rows |-> R]
        old == RowsAt(promote.rows, team, lineup_date, position)
        upsert == IF old = {}
                  THEN promote.rows \cup
                       {Row(team, lineup_date, position, player_id, player_data.name,
                            player_data.confirmed, STARTER, None, None, None, None)}
                  ELSE (promote.rows \ old) \cup
                       {[r EXCEPT !.player_id = player_id,
                                  !.player_name = player_data.name,
                                  !.confirmed = player_data.confirmed,
                                  !.player_status = STARTER] : r \in old}
        by_position == Update(upsert, {r \in mine(upsert) :
                                          /\ r.position = position
                                          /\ r.player_status # STARTER},
                              LAMBDA r : [r EXCEPT !.player_status = STARTER])
        by_player == Update(by_position.rows,
                            {r \in mine(by_position.rows) :
                                /\ r.player_id = player_id
                                /\ r.player_status # STARTER},
                            LAMBDA r : [r EXCEPT !.player_status = STARTER,
                                                 !.position = position])
    IN IF ~promote.ok THEN Acc(R, acc.log \cup {"entry_error"})
       ELSE IF player_id <= 0 THEN Acc(upsert, acc.log \cup {"entry_saved"})
       ELSE IF ~by_player.ok THEN Acc(by_position.rows, acc.log \cup {"entry_error"})
       ELSE Acc(by_player.rows, acc.log \cup {"entry_saved"})

\* LineupRepository.save_lineups_for_game: teams in the order the service
\* put them into team_lineups (home, away), one commit at the end.
save_lineups_for_game(R, lineup_date, team_lineups) ==
    FoldSeq(LAMBDA acc, team :
                FoldSeq(LAMBDA a, pos :
                            IF pos \in DOMAIN team_lineups[team]
                            THEN SaveLineupEntry(a, lineup_date, team, pos,
                                                 team_lineups[team][pos])
                            ELSE a,
                        acc, POSITIONS),
            Acc(R, {}), <<HomeTeam, AwayTeam>>)

\* ------------------------------------------------------------- lineup read
\* ORDER BY gl.team_abbr, gl.position: "BOS" before "LAL"; 'BENCH-<id>'
\* (ids below 10) before C, PF, PG, SF, SG.
TeamRank(team) == IF team = AwayTeam THEN 1 ELSE 2
ReadOrder == <<"C", "PF", "PG", "SF", "SG">>
PositionRank(r) ==
    IF r.position \in PositionSet
    THEN 10 + (CHOOSE i \in 1..Len(ReadOrder) : ReadOrder[i] = r.position)
    ELSE r.player_id
SortKey(r) == <<TeamRank(r.team), PositionRank(r)>>
KeyLE(a, b) == a[1] < b[1] \/ (a[1] = b[1] /\ a[2] <= b[2])

\* LineupRepository.get_lineup_by_game_id: every row of the game, whatever
\* its lineup_date.  Rows that tie in the ORDER BY come in an order MySQL
\* does not fix: of the rows of one (team, position) the one read last
\* stays in lineups[team][position], and lineup_date is that of the first
\* row read.  The result is None when the game has no row, else
\* [lineup_date, lineups] with lineups the set of rows that stay.
SameSlot(r, q) == r.team = q.team /\ r.position = q.position
Tied(R) == {r \in R : \E q \in R : q # r /\ SameSlot(r, q)}
LastChoices(R) ==
    {(R \ Tied(R)) \cup S : S \in
        {S \in SUBSET Tied(R) :
            \A r \in Tied(R) : Cardinality({q \in S : SameSlot(r, q)}) = 1}}
FirstRows(R, last) ==
    LET least == {r \in R : \A q \in R : KeyLE(SortKey(r), SortKey(q))}
    IN IF Cardinality(least) = 1 THEN least ELSE least \ last
get_lineup_by_game_id(R) ==
    IF R = {} THEN {None}
    ELSE UNION {{Some([lineup_date |-> first.lineup_date, lineups |-> last]) :
                    first \in FirstRows(R, last)} : last \in LastChoices(R)}

\* ----------------------------------------------------------- odds merge
\* PlayerStatsService.calculate_over_under_history(use_local_only = True):
\* the result keeps the number of local games and the lines it was
\* evaluated against.
calculate_over_under_history(player_id, points_line, assists_line, rebounds_line) ==
    [total_games |-> LocalGames(player_id), points_line |-> points_line,
     assists_line |-> assists_line, rebounds_line |-> rebounds_line]

TeamPlayer(p, team) ==
    [player_name |-> p.player_name, player_id |-> p.player_id, team |-> team]

\* The last element of players_list accepted by Test (a dict comprehension
\* keeps the last player of each key).
LastWith(players_list, Test(_)) ==
    LET idx == {i \in 1..Len(players_list) : Test(players_list[i])}
    IN IF idx = {} THEN None
       ELSE Some(players_list[CHOOSE i \in idx : \A j \in idx : j <= i])

\* OddsService._find_matching_player_in_list
Similarity(player_name_normalized, player_name_lower,
           lineup_name_normalized, lineup_name_lower) ==
    RatMax(RatMax(SequenceRatio(player_name_normalized, lineup_name_normalized),
                  SequenceRatio(player_name_lower, lineup_name_lower)),
           IF \/ Contains(lineup_name_normalized, player_name_normalized)
              \/ Contains(player_name_normalized, lineup_name_normalized)
           THEN <<17, 20>> ELSE <<0, 1>>)
\* The best match without the 0.75 threshold.
ClosestMatch(best, p, similarity) ==
    IF RatGT(similarity, best.similarity)
    THEN [similarity |-> similarity, match |-> Some(p)]
    ELSE best
BestMatch(best, p, similarity) ==
    IF RatGT(similarity, best.similarity) /\ RatGE(similarity, <<3, 4>>)
    THEN [similarity |-> similarity, match |-> Some(p)]
    ELSE best
FirstOf(by_name, by_normalized, by_similarity) ==
    IF by_name # None THEN by_name
    ELSE IF by_normalized # None THEN by_normalized
    ELSE by_similarity
find_matching_player_in_list(player_name, players_list) ==
    IF players_list = << >> THEN None
    ELSE FirstOf(
        LastWith(players_list,
            LAMBDA p : Strip(Lower(p.player_name)) = Strip(Lower(player_name))),
        LastWith(players_list,
            LAMBDA p : normalize_name(p.player_name) = normalize_name(player_name)),
        FoldSeq(LAMBDA best, p :
                    BestMatch(best, p,
                        Similarity(normalize_name(player_name),
                                   Strip(Lower(player_name)),
                                   normalize_name(p.player_name),
                                   Strip(Lower(p.player_name)))),
                [similarity |-> <<0, 1>>, match |-> None], players_list).match)

\* NBAApiClient.find_nba_player_id_by_name, exact pass (_normalize_name is
\* the text of lineup_service.normalize_player_name); None when the API is
\* down or knows no such name.
find_nba_player_id_by_name(player_name, api_up) ==
    LET all_players == NbaRoster(HomeTeam) \o NbaRoster(AwayTeam)
        hit == LastWith(all_players,
                   LAMBDA p : normalize_player_name(p.player_name)
                              = normalize_player_name(player_name))
    IN IF api_up /\ hit # None THEN Some(hit[1].player_id) ELSE None

\* The rows of the lineup at the five positions, in the order
\* lineup['lineups'].items() yields them (the order they were read in).
RECURSIVE SortRows(_)
SortRows(S) ==
    IF S = {} THEN << >>
    ELSE LET r == CHOOSE r \in S : \A q \in S : KeyLE(SortKey(r), SortKey(q))
         IN <<r>> \o SortRows(S \ {r})
StarterEntries(lineup) ==
    IF lineup = None THEN << >>
    ELSE SortRows({r \in lineup[1].lineups :
                      r.position \in PositionSet /\ r.player_name # << >>})

\* team_players_list: the rosters of the database, home then away; the NBA
\* API's when the database has none.
team_players_list(ros, api_up) ==
    LET OfTeams(src(_)) ==
            MapSeq(LAMBDA p : TeamPlayer(p, HomeTeam), src(HomeTeam))
            \o MapSeq(LAMBDA p : TeamPlayer(p, AwayTeam), src(AwayTeam))
        database == OfTeams(LAMBDA team : ros[team])
    IN IF database # << >> THEN database
       ELSE IF api_up THEN OfTeams(NbaRoster)
       ELSE << >>

\* The names FanDuel quotes, and the lists team_players_list can be; the
\* match of each name in each list is evaluated once.
QuoteNames == {Kent, Kant, Da, Zo, Bo}
PlayerNames == QuoteNames \cup {KentFN, DaNBA}
normalized_name == [name \in PlayerNames |-> normalize_name(name)]
PlayerLists ==
    {team_players_list(ros, api_up) :
        ros \in {f \in [Teams -> UNION {RosterOptions(t) : t \in Teams}] :
                    \A t \in Teams : f[t] \in RosterOptions(t)},
        api_up \in BOOLEAN}
matching_player ==
    [player_name \in QuoteNames, players \in PlayerLists |->
        find_matching_player_in_list(player_name, players)]

\* over_under_history as the merge keeps it: dropped when it has no games.
\* A history that is attached whatever its number of games.
OverUnderAlways(player_id, pts, ast, reb) ==
    IF pts # 0 /\ player_id # 0
    THEN Some(calculate_over_under_history(player_id, pts, ast, reb))
    ELSE None

\* `over_under_history = None` unless calculate_over_under_history (local
\* only) reports total_games > 0.
OverUnderOrNone(player_id, pts, ast, reb) ==
    IF pts # 0 /\ player_id # 0
          /\ calculate_over_under_history(player_id, pts, ast, reb).total_games > 0
    THEN Some(calculate_over_under_history(player_id, pts, ast, reb))
    ELSE None

Matched(name, id, team, status, quote, ouh) ==
    [player_name |-> name, player_id |-> id, team |-> team,
     player_status |-> status, points_line |-> quote.points_line,
     assists_line |-> quote.assists_line, rebounds_line |-> quote.rebounds_line,
     over_under_history |-> ouh]

\* The body of the `for player_name_lower, player_odds_data in
\* odds_players_map.items()` loop of OddsService._match_players_with_odds;
\* acc = [rows, log, matched_players].  by_starter_name: the STARTER of the
\* lineup with the quote's normalized name; team_player: the roster player
\* _find_matching_player_in_list finds; by_api: the id the NBA API has for
\* the name.
MergeQuote(acc, quote, starters, game_date, by_starter_name, team_player, by_api) ==
    LET known == team_player # None /\ team_player[1].player_id # 0
        by_starter_id ==
            IF known
            THEN LastWith(starters,
                     LAMBDA e : e.player_id # 0
                                /\ e.player_id = team_player[1].player_id)
            ELSE None
        matched_starter ==
            IF by_starter_name # None THEN by_starter_name ELSE by_starter_id
        starter_player_ids ==
            {starters[i].player_id : i \in 1..Len(starters)} \ {0}
        official_nba_id == IF known THEN Some(team_player[1].player_id) ELSE by_api
        player_id_to_use ==
            IF official_nba_id # None /\ official_nba_id[1] # 0
            THEN official_nba_id[1] ELSE matched_starter[1].player_id
        starter_ouh == OverUnderOrNone(player_id_to_use, quote.points_line[1],
                           quote.assists_line, quote.rebounds_line)
        bench_ouh == OverUnderOrNone(team_player[1].player_id,
                         quote.points_line[1], None, None)
    IN IF matched_starter # None
       THEN [rows |-> update_points_line_for_player(acc.rows, game_date,
                          matched_starter[1].team, matched_starter[1].player_id,
                          quote.points_line, quote.assists_line,
                          quote.rebounds_line, starter_ouh),
             log |-> acc.log \cup {"starter_updated"}
                       \cup (IF by_starter_name = None THEN {"matched_by_id"} ELSE {}),
             matched_players |-> Append(acc.matched_players,
                 Matched(matched_starter[1].player_name, matched_starter[1].player_id,
                         matched_starter[1].team, STARTER, quote, starter_ouh))]
       ELSE IF team_player = None
       THEN [acc EXCEPT !.log = @ \cup {"not_found"}]
       ELSE IF team_player[1].player_id # 0
               /\ team_player[1].player_id \in starter_player_ids
       THEN [acc EXCEPT !.log = @ \cup {"skipped_starter"}]
       ELSE [rows |-> save_bench_player_for_game(acc.rows, game_date,
                          team_player[1].team, team_player[1].player_id, quote.name,
                          quote.points_line, quote.assists_line,
                          quote.rebounds_line, bench_ouh),
             log |-> acc.log \cup {"bench_saved"},
             matched_players |-> Append(acc.matched_players,
                 Matched(quote.name, team_player[1].player_id,
                         team_player[1].team, BENCH, quote, bench_ouh))]
MatchQuote(acc, quote, starters, game_date, players, api_up) ==
    MergeQuote(acc, quote, starters, game_date,
               LastWith(starters,
                   LAMBDA e : normalized_name[e.player_name]
                              = normalized_name[quote.name]),
               matching_player[quote.name, players],
               find_nba_player_id_by_name(quote.name, api_up))

\* odds_players_map: the FanDuel entries that carry a points line.
odds_players_map(quotes) == FilterSeq(LAMBDA q : q.points_line # None, quotes)

\* OddsService._match_players_with_odds
match_players_with_odds(R, lineup, quotes, ros, api_up) ==
    LET game_date == IF lineup # None THEN lineup[1].lineup_date ELSE GameDate
        starters == StarterEntries(lineup)
        players == team_players_list(ros, api_up)
    IN FoldSeq(LAMBDA acc, quote :
                   MatchQuote(acc, quote, starters, game_date, players, api_up),
               [rows |-> R, log |-> {}, matched_players |-> << >>],
               odds_players_map(quotes))

\* ----------------------------------------------------------------- inputs
PayloadOrder == <<"SF", "PG", "SG", "PF", "C">>
PayloadPositions == {PayloadOrder[i] : i \in 1..NumPositions}

\* No player is listed at two positions.
DistinctPlayers(f) ==
    \A a, b \in DOMAIN f :
        normalize_player_name(f[a][1]) = normalize_player_name(f[b][1]) => a = b

\* The lineups that can be published for a team: some of the payload
\* positions, each with a different player of the team.
TeamLineupOptions(names, confirmed) ==
    {[pos \in DOMAIN f |-> Entry(f[pos][1], f[pos][2], confirmed)] :
        f \in {g \in UNION {[D -> names] : D \in SUBSET PayloadPositions} :
                  DistinctPlayers(g)}}

LineupsOf(Names(_), flags) ==
    UNION {{[t \in Teams |-> IF t = HomeTeam THEN h ELSE a] :
               h \in TeamLineupOptions(Names(HomeTeam), c),
               a \in TeamLineupOptions(Names(AwayTeam), c)} : c \in flags}
\* What FantasyNerds publishes (confirmed lineups), and what a posted body
\* can hold.
LineupsOptions == LineupsOf(LineupNames, {TRUE})
DictOptions == LineupsOf(DictNames, BOOLEAN)

\* YYYYMMDD, as import_lineups_from_dict also accepts it.
Compact(date) == FilterSeq(LAMBDA c : c # "-", date)

\* 'lineups' is missing or empty.
NoLineups(lineups) == \A t \in Teams : DOMAIN lineups[t] = {}

\* FanDuel quotes: [name, points_line, assists_line, rebounds_line].
QuoteLines ==
    {[points_line |-> Some(2), assists_line |-> Some(1), rebounds_line |-> None],
     [points_line |-> None, assists_line |-> Some(1), rebounds_line |-> None]}
Quote(name, l) ==
    [name |-> name, points_line |-> l.points_line,
     assists_line |-> l.assists_line, rebounds_line |-> l.rebounds_line]
Quotes == {Quote(n, l) : n \in QuoteNames, l \in QuoteLines}
\* One entry per (lower-cased) description, at most MaxQuotes of them.
QuoteSeqs ==
    {q \in UNION {[1..n -> Quotes] : n \in 0..MaxQuotes} :
        \A i, j \in DOMAIN q : q[i].name = q[j].name => i = j}

\* ------------------------------------------------------------------ state
\* rows: game_lineups of the game; roster: team_depth_charts per team (in
\* get_players_by_team order); last: the operation that ran last and the
\* kinds of log line it wrote; steps: operations run so far.
\* run: the provider answers of a pipeline (roster import, lineup import,
\* odds merge) that is being replayed, and the table after its first pass.
\* race: a lineup import and an odds merge in flight at the same time, each
\* with the statements it has still to issue.
\* game_logs: player_game_logs; evaluated: the last call of
\* calculate_over_under_history, with what it was given, what it called
\* upstream and what it returned.
\* today: the games the season has seen so far (its game days are
\* numbered); batch: the run of load_game_logs_for_event in progress.
\* resolved: the call of _find_odds_api_event_id that has not returned yet.
\* fetching: the call of get_team_players in progress.
VARIABLES rows, roster, last, steps, run, race, game_logs, evaluated, today, batch,
          resolved, fetching
vars == <<rows, roster, last, steps, run, race, game_logs, evaluated, today, batch,
          resolved, fetching>>
\* The state of the look-ups at the providers.
lookup == <<resolved, fetching>>
\* The state beside the lineup tables, and the lineup tables.
side == <<game_logs, evaluated, today, batch, lookup>>
lineup_state == <<rows, roster, last, run, race>>

Done(op, log) == [op |-> op, log |-> log]
RosterAnswers ==
    {f \in [Teams -> UNION {RosterOptions(t) : t \in Teams}] :
        \A t \in Teams : f[t] \in RosterOptions(t)}
NoRun ==
    [phase |-> 0, fetched |-> [t \in Teams |-> << >>], date |-> GameDate,
     lineups |-> [t \in Teams |-> << >>], quotes |-> << >>, api_up |-> FALSE,
     first |-> {}]
NoEvaluation == [op |-> "none"]
NoLookup == [op |-> "none"]
NoFetch == [phase |-> "idle", team |-> "", attempts |-> << >>, players |-> << >>]
NoBatch ==
    [phase |-> "idle", todo |-> << >>, thread |-> "none", late |-> {},
     errors |-> {}, players_processed |-> 0, joined |-> None, saved |-> None]
NoRace ==
    [phase |-> "idle", statements |-> << >>, odds |-> "idle", lineup |-> None,
     todo |-> << >>, quotes |-> << >>, api_up |-> FALSE, date |-> GameDate,
     lineups |-> [t \in Teams |-> << >>], before |-> {}, failed |-> {}]

Init ==
    /\ rows = {}
    /\ roster \in RosterAnswers
    /\ last = Done("init", {})
    /\ steps = 0
    /\ run = NoRun
    /\ race = NoRace
    /\ game_logs = {}
    /\ evaluated = NoEvaluation
    /\ today = 0
    /\ batch = NoBatch
    /\ resolved = NoLookup
    /\ fetching = NoFetch

Step == steps < MaxSteps /\ steps' = steps + 1 /\ UNCHANGED <<run, race, side>>

\* One team of the loop of import_rosters_from_nba_api.  get_team_players
\* answers [] when the API has no players and when the request fails (the
\* client logs the error and returns []): the team is skipped.  Otherwise
\* save_depth_chart replaces the team's roster, or raises with nothing
\* committed, and the error goes to the errors of the result.
ImportOutcome(team, fetched, request_error, save_raises) ==
    IF team \in request_error THEN "request_error"
    ELSE IF fetched[team] = << >> THEN "no_players"
    ELSE IF team \in save_raises THEN "import_error"
    ELSE "saved"

\* DepthChartService.import_rosters_from_nba_api: the rosters after it, and
\* what it reports for each team (the errors of its result are the
\* import_error entries).
import_rosters_from_nba_api(ros, fetched, request_error, save_raises) ==
    [roster |-> [t \in Teams |->
                    IF ImportOutcome(t, fetched, request_error, save_raises) = "saved"
                    THEN fetched[t] ELSE ros[t]],
     log |-> {ImportOutcome(t, fetched, request_error, save_raises) \o ":" \o t :
                 t \in Teams}]

\* LineupService.import_lineups_for_date(date); the provider's answer
\* carries no 'lineup_date' of its own, so lineup_date = date.  Without
\* lineups the fallback _import_rosters_as_bench_for_date runs, which calls
\* depth_chart_service.import_rosters_for_teams, a method that does not
\* exist: the AttributeError is caught and nothing is written.  The game is
\* found on `date` or on the day next to it.
import_lineups_for_date(R, ros, date, lineups) ==
    IF NoLineups(lineups) THEN Acc(R, {"fallback_failed"})
    ELSE save_lineups_with_depth_chart(R, ros, date, lineups)

\* LineupService.import_lineups_from_dict(lineups_data)
import_lineups_from_dict(R, given, lineups) ==
    LET lineup_date ==
            IF given # None /\ Len(given[1]) = 8
            THEN SubSeq(given[1], 1, 4) \o <<"-">> \o SubSeq(given[1], 5, 6)
                 \o <<"-">> \o SubSeq(given[1], 7, 8)
            ELSE IF given # None THEN given[1] ELSE None
    IN IF given = None \/ given = Some(<< >>) THEN Acc(R, {"date_required"})
       ELSE IF NoLineups(lineups) THEN Acc(R, {"no_lineups"})
       ELSE IF get_games_by_date(lineup_date) = {} THEN Acc(R, {"no_games"})
       ELSE save_lineups_for_game(R, lineup_date, lineups)

\* OddsService.get_player_points_odds_for_game(game_id): the lineup is
\* read, then the event and its odds are fetched (quotes = None when the
\* event or its bookmakers are missing), then the quotes are merged.
get_player_points_odds_for_game(R, ros, lineup, quotes, api_up) ==
    IF quotes = None THEN [rows |-> R, log |-> {"no_odds"}, matched_players |-> << >>]
    ELSE match_players_with_odds(R, lineup, quotes[1], ros, api_up)

ImportRostersFromNbaApi ==
    \E fetched \in RosterAnswers :
        \E request_error \in SUBSET {t \in Teams : fetched[t] = << >>},
           save_raises \in SUBSET {t \in Teams : fetched[t] # << >>} :
            LET imported == import_rosters_from_nba_api(roster, fetched,
                                                        request_error, save_raises)
            IN /\ Step
               /\ roster' = imported.roster
               /\ last' = Done("import_rosters_from_nba_api", imported.log)
               /\ UNCHANGED rows

ImportLineupsForDate ==
    \E date \in Dates, lineups \in LineupsOptions :
        LET saved == import_lineups_for_date(rows, roster, date, lineups)
        IN /\ Step
           /\ rows' = saved.rows
           /\ last' = Done("import_lineups_for_date", saved.log)
           /\ UNCHANGED roster

ImportLineupsFromDict ==
    \E given \in {None} \cup {Some(d) : d \in Dates \cup {Compact(GameDate)}},
       lineups \in DictOptions :
        LET saved == import_lineups_from_dict(rows, given, lineups)
        IN /\ Step
           /\ rows' = saved.rows
           /\ last' = Done("import_lineups_from_dict", saved.log)
           /\ UNCHANGED roster

GetPlayerPointsOddsForGame ==
    \E lineup \in get_lineup_by_game_id(rows),
       quotes \in {None} \cup {Some(q) : q \in QuoteSeqs}, api_up \in BOOLEAN :
        LET merged == get_player_points_odds_for_game(rows, roster, lineup,
                                                      quotes, api_up)
        IN /\ Step
           /\ rows' = merged.rows
           /\ last' = Done("get_player_points_odds_for_game", merged.log)
           /\ UNCHANGED roster

Next ==
    \/ ImportRostersFromNbaApi
    \/ ImportLineupsForDate
    \/ ImportLineupsFromDict
    \/ GetPlayerPointsOddsForGame

Spec == Init /\ [][Next]_vars

\* ---------------------------------------------------- the pipeline, twice
\* The scheduler's pipeline for the game: import_rosters_from_nba_api, then
\* import_lineups_for_date, then get_player_points_odds_for_game.  The first
\* pass draws the providers' answers, the second pass is given the same.
Idle == run.phase = 0 /\ race.phase = "idle"

\* Whatever ran on the tables before the pipeline.
Prelude == Idle /\ steps < MaxPrelude /\ Next

PipelineRoster ==
    /\ race.phase = "idle"
    /\ run.phase \in {0, 3}
    /\ \E fetched \in IF run.phase = 0 THEN RosterAnswers ELSE {run.fetched} :
          LET imported == import_rosters_from_nba_api(roster, fetched, {}, {})
          IN /\ roster' = imported.roster
             /\ run' = [run EXCEPT !.phase = @ + 1, !.fetched = fetched]
             /\ last' = Done("import_rosters_from_nba_api", imported.log)
    /\ UNCHANGED <<rows, steps, race, side>>

PipelineLineups ==
    /\ run.phase \in {1, 4}
    /\ \E date \in IF run.phase = 1 THEN Dates ELSE {run.date},
          lineups \in IF run.phase = 1 THEN LineupsOptions ELSE {run.lineups} :
          LET saved == import_lineups_for_date(rows, roster, date, lineups)
          IN /\ rows' = saved.rows
             /\ last' = Done("import_lineups_for_date", saved.log)
             /\ run' = [run EXCEPT !.phase = @ + 1, !.date = date,
                                   !.lineups = lineups]
    /\ UNCHANGED <<roster, steps, race, side>>

PipelineOdds ==
    /\ run.phase \in {2, 5}
    /\ \E lineup \in get_lineup_by_game_id(rows),
          quotes \in IF run.phase = 2 THEN QuoteSeqs ELSE {run.quotes},
          api_up \in IF run.phase = 2 THEN BOOLEAN ELSE {run.api_up} :
          LET merged == get_player_points_odds_for_game(rows, roster, lineup,
                                                        Some(quotes), api_up)
          IN /\ rows' = merged.rows
             /\ last' = Done("get_player_points_odds_for_game", merged.log)
             /\ run' = [run EXCEPT !.phase = @ + 1, !.quotes = quotes,
                                   !.api_up = api_up,
                                   !.first = IF run.phase = 2 THEN merged.rows ELSE @]
    /\ UNCHANGED <<roster, steps, race, side>>

NextPipeline ==
    \/ Prelude
    \/ PipelineRoster
    \/ PipelineLineups
    \/ PipelineOdds

SpecPipeline == Init /\ [][NextPipeline]_vars

\* ------------------------------------- lineup import racing an odds merge
\* Every statement of either handler commits on its own (conn.commit()
\* after each execute), so the statements of a lineup import and of an odds
\* merge that run at the same time interleave in any order.
ImportStatements(ros, date, lineups) ==
    TeamImport(HomeTeam, ros, date, lineups).statements
    \o TeamImport(AwayTeam, ros, date, lineups).statements

StartRace ==
    /\ Idle
    /\ \E date \in Dates, lineups \in LineupsOptions, quotes \in QuoteSeqs,
          api_up \in BOOLEAN :
          /\ ~NoLineups(lineups)
          /\ race' = [phase |-> "running",
                      statements |-> ImportStatements(roster, date, lineups),
                      odds |-> "read", lineup |-> None,
                      todo |-> odds_players_map(quotes), quotes |-> quotes,
                      api_up |-> api_up, date |-> date, lineups |-> lineups,
                      before |-> rows, failed |-> {}]
    /\ last' = Done("start", {})
    /\ UNCHANGED <<rows, roster, steps, run, side>>

\* The next statement of _save_lineups_with_depth_chart.
LineupStatement ==
    /\ race.phase = "running"
    /\ race.statements # << >>
    /\ rows' = Execute(rows, Head(race.statements))
    /\ race' = [race EXCEPT !.statements = Tail(@)]
    /\ last' = Done("import_lineups_for_date", {Head(race.statements).op})
    /\ UNCHANGED <<roster, steps, run, side>>

\* lineup_repository.get_lineup_by_game_id of get_player_points_odds_for_game
OddsRead ==
    /\ race.phase = "running"
    /\ race.odds = "read"
    /\ \E lineup \in get_lineup_by_game_id(rows) :
          race' = [race EXCEPT !.lineup = lineup,
                               !.odds = IF race.todo = << >> THEN "done" ELSE "merge"]
    /\ last' = Done("get_player_points_odds_for_game", {"lineup_read"})
    /\ UNCHANGED <<rows, roster, steps, run, side>>

\* The next quote of _match_players_with_odds, against the lineup as read.
OddsStatement ==
    /\ race.phase = "running"
    /\ race.odds = "merge"
    /\ LET game_date == IF race.lineup # None THEN race.lineup[1].lineup_date
                        ELSE GameDate
           merged == MatchQuote([rows |-> rows, log |-> {}, matched_players |-> << >>],
                                Head(race.todo), StarterEntries(race.lineup),
                                game_date, team_players_list(roster, race.api_up),
                                race.api_up)
       IN /\ rows' = merged.rows
          /\ last' = Done("get_player_points_odds_for_game", merged.log)
    /\ race' = [race EXCEPT !.todo = Tail(@),
                            !.odds = IF Tail(race.todo) = << >> THEN "done" ELSE "merge"]
    /\ UNCHANGED <<roster, steps, run, side>>

NextRace ==
    \/ StartRace
    \/ LineupStatement
    \/ OddsRead
    \/ OddsStatement

SpecRace == Init /\ [][NextRace]_vars

\* ============================================================ game logs
\* A game as the NBA API (PlayerGameLog) reports it: GAME_DATE (the days of
\* the season are numbered), MATCHUP, PTS in tenths of a point (None for a
\* record without points).
Game(d, m, pts) == [game_date |-> d, matchup |-> m, pts |-> pts]
Matchup == "LAL @ BOS"

\* A row of player_game_logs; UNIQUE KEY unique_game_log (player_id,
\* game_date, matchup).
GameLog(id, player_id, g) ==
    [id |-> id, player_id |-> player_id, game_date |-> g.game_date,
     matchup |-> g.matchup, points |-> g.pts]
LogsOf(logs, player_id) == {r \in logs : r.player_id = player_id}

\* id INT AUTO_INCREMENT: a new row gets an id above every row of the
\* table (ids are kept up to their order).
AutoIncrement(logs) ==
    IF logs = {} THEN 1
    ELSE 1 + (CHOOSE n \in {r.id : r \in logs} : \A r \in logs : r.id <= n)

\* INSERT INTO player_game_logs ... ON DUPLICATE KEY UPDATE points =
\* VALUES(points), ...
Upsert(table, player_id, game) ==
    LET old == {r \in table : /\ r.player_id = player_id
                              /\ r.game_date = game.game_date
                              /\ r.matchup = game.matchup}
    IN IF old = {} THEN table \cup {GameLog(AutoIncrement(table), player_id, game)}
       ELSE (table \ old) \cup {[r EXCEPT !.points = game.pts] : r \in old}
SaveGameLog(logs, player_id, game) ==
    UNION {Upsert(table, player_id, game) : table \in {logs}}

\* ORDER BY game_date DESC, id DESC
Newer(a, b) ==
    a.game_date > b.game_date \/ (a.game_date = b.game_date /\ a.id > b.id)

\* keep_count of save_player_game_logs' call of _cleanup_old_games
keep_count == 25

\* A clean-up that keeps the rows first inserted.
keep_oldest_ids(logs, player_id, keep) ==
    {r \in logs : r.player_id = player_id
                  => Cardinality({q \in LogsOf(logs, player_id) : q.id < r.id}) < keep}

\* GameLogRepository._cleanup_old_games: DELETE ... WHERE player_id = %s AND
\* id NOT IN (the first keep_count ids by game_date DESC, id DESC).
cleanup_old_games(logs, player_id, keep) ==
    {r \in logs : r.player_id = player_id
                  => Cardinality({q \in LogsOf(logs, player_id) : Newer(q, r)}) < keep}

\* GameLogRepository.save_player_game_logs: every game upserted, then the
\* clean-up.
save_player_game_logs(logs, player_id, games) ==
    UNION {cleanup_old_games(upserted, player_id, keep_count) :
              upserted \in {FoldSeq(LAMBDA acc, g : SaveGameLog(acc, player_id, g),
                                    logs, games)}}

RECURSIVE NewestFirst(_)
NewestFirst(S) ==
    IF S = {} THEN << >>
    ELSE LET r == CHOOSE x \in S : \A q \in S \ {x} : Newer(x, q)
         IN <<r>> \o NewestFirst(S \ {r})
FirstN(s, n) == IF Len(s) > n THEN SubSeq(s, 1, n) ELSE s

\* GameLogRepository.get_player_game_logs(player_id, limit)
get_player_game_logs(logs, player_id, limit) ==
    IF limit > 0 THEN FirstN(NewestFirst(LogsOf(logs, player_id)), limit)
    ELSE NewestFirst(LogsOf(logs, player_id))

\* NBAClient.get_player_last_n_games: games[:n] of the season's game log
\* (most recent first).
get_player_last_n_games(season, n) == FirstN(season, n)

\* ------------------------------------------------------------- over/under
\* round(num / den, 1) in tenths: to the nearest tenth, a tie to the even
\* one.
Round1(num, den) ==
    LET q == (num * 10) \div den
        r == (num * 10) % den
    IN IF 2 * r < den THEN q
       ELSE IF 2 * r > den THEN q + 1
       ELSE IF q % 2 = 0 THEN q ELSE q + 1

\* The dictionary both evaluations return; percentages in tenths.
OverUnderResult(over_count, under_count, total_games, source) ==
    [over_count |-> over_count, under_count |-> under_count,
     total_games |-> total_games,
     over_percentage |->
         IF total_games > 0 THEN Round1(over_count * 100, total_games) ELSE 0,
     under_percentage |->
         IF total_games > 0 THEN Round1(under_count * 100, total_games) ELSE 0,
     source |-> source]
NoGames(source) == OverUnderResult(0, 0, 0, source)

\* A count that takes a game on the line for a game under it.
PushIsUnder(points, points_line, source) ==
    LET with_points == {i \in 1..Len(points) : points[i] # None}
        over == {i \in with_points : points[i][1] > points_line}
    IN OverUnderResult(Cardinality(over), Cardinality(with_points \ over),
                       Cardinality(with_points), source)

\* The `for game in games` loop of calculate_over_under_from_local and of
\* calculate_over_under_history, on the games' points.
Tally(points, points_line, source) ==
    LET with_points == {i \in 1..Len(points) : points[i] # None}
    IN OverUnderResult(
           Cardinality({i \in with_points : points[i][1] > points_line}),
           Cardinality({i \in with_points : points[i][1] < points_line}),
           Cardinality(with_points), source)

PointsOf(games) == [i \in 1..Len(games) |-> games[i].points]
PtsOf(games) == [i \in 1..Len(games) |-> games[i].pts]

\* GameLogService.calculate_over_under_from_local
calculate_over_under_from_local(logs, player_id, points_line, num_games) ==
    LET games == get_player_game_logs(logs, player_id, num_games)
    IN IF games = << >> THEN NoGames("local_db")
       ELSE Tally(PointsOf(games), points_line, "local_db")

Call(op, arg) == [op |-> op, arg |-> arg]

\* An evaluation that looks the name up whatever the mode.
resolve_always(player_name, use_local_only) == player_name # None

\* `if player_name and not use_local_only` ahead of the local lookup.
resolve_first(player_name, use_local_only) ==
    player_name # None /\ ~use_local_only

\* PlayerStatsService.calculate_over_under_history (game_log_service set).
\* first_season, second_season: what the NBA API answers to the first and
\* to the second get_player_last_n_games.  The outcome keeps the upstream
\* calls in order, the games fetched live and the points evaluated.
evaluate_over_under_history(logs, player_id, points_line, num_games, player_name, use_local_only, api_up, first_season, second_season) ==
    LET nba_player_id ==
            IF player_name # None
            THEN find_nba_player_id_by_name(player_name[1], api_up) ELSE None
        found == nba_player_id # None /\ nba_player_id[1] # 0
        find == <<Call("find_nba_player_id_by_name", player_name)>>
        early == resolve_first(player_name, use_local_only)
        local_id == IF early /\ found THEN nba_player_id[1] ELSE player_id
        local == calculate_over_under_from_local(logs, local_id, points_line,
                                                 num_games)
        calls0 == IF early THEN find ELSE << >>
        target_player_id == IF found THEN nba_player_id[1] ELSE player_id
        games1 == get_player_last_n_games(first_season, num_games)
        calls1 == calls0 \o (IF player_name # None THEN find ELSE << >>)
                         \o <<Call("get_player_last_n_games", target_player_id)>>
        other_id == games1 = << >> /\ found /\ target_player_id = player_id
        by_name == games1 = << >> /\ ~found /\ player_name # None
        games == IF other_id THEN get_player_last_n_games(second_season, num_games)
                 ELSE games1
        calls2 == calls1 \o (IF other_id
                             THEN <<Call("get_player_last_n_games", nba_player_id[1])>>
                             ELSE IF by_name THEN find ELSE << >>)
    IN IF local.total_games > 0
       THEN [result |-> local, calls |-> calls0, fetched |-> << >>,
             points |-> PointsOf(get_player_game_logs(logs, local_id, num_games))]
       ELSE IF use_local_only
       THEN [result |-> NoGames("local_db"), calls |-> calls0, fetched |-> << >>,
             points |-> << >>]
       ELSE IF games = << >>
       THEN [result |-> NoGames("nba_api"), calls |-> calls2, fetched |-> << >>,
             points |-> << >>]
       ELSE [result |-> Tally(PtsOf(games), points_line, "nba_api"),
             calls |-> calls2, fetched |-> games, points |-> PtsOf(games)]

\* ------------------------------------------------------- engine inputs
\* Days of the season the NBA API can report games of.
MaxSeason == 3
PointsValues == {None, Some(180), Some(250), Some(300)}
PointsLines == {225, 250}
NumGamesOptions == {2, 25}

\* The game log of a season: its games, most recent first.
RECURSIVE SeasonOf(_)
SeasonOf(f) ==
    IF DOMAIN f = {} THEN << >>
    ELSE LET d == CHOOSE x \in DOMAIN f : \A y \in DOMAIN f : y <= x
         IN <<Game(d, Matchup, f[d])>>
            \o SeasonOf([y \in DOMAIN f \ {d} |-> f[y]])
\* What the NBA API can answer for a player id: any season for the id of
\* Kent, one game for an id of its own that FantasyNerds also uses,
\* nothing for any other id.
Seasons(player_id) ==
    IF player_id = 1
    THEN {SeasonOf(f) : f \in UNION {[D -> PointsValues] : D \in SUBSET (1..MaxSeason)}}
    ELSE IF player_id = 8 THEN {<< >>, <<Game(1, Matchup, Some(300))>>}
    ELSE {<< >>}
\* What the first get_player_last_n_games of an evaluation can be answered:
\* a season of the id it asks for (nothing when it is not reached).
FirstSeasons(logs, player_id, points_line, num_games, player_name,
             use_local_only, api_up) ==
    LET nba_player_id ==
            IF player_name # None
            THEN find_nba_player_id_by_name(player_name[1], api_up) ELSE None
        target_player_id == IF nba_player_id # None THEN nba_player_id[1] ELSE player_id
        local_id == IF resolve_first(player_name, use_local_only)
                    THEN target_player_id ELSE player_id
    IN IF use_local_only
          \/ calculate_over_under_from_local(logs, local_id, points_line,
                                             num_games).total_games > 0
       THEN {<< >>}
       ELSE Seasons(target_player_id)

\* The (player_id, player_name) a caller asks with: an official id, with
\* or without the name, or a FantasyNerds id.
Asked ==
    {<<1, None>>, <<1, Some(Kent)>>, <<8, None>>, <<8, Some(KentFN)>>,
     <<7, Some(Da)>>}

\* GameLogController.load_player_game_logs (the latest saved game is not
\* today's): the last 25 games are fetched and, when there are any, saved.
LoadPlayerGameLogs ==
    /\ evaluated = NoEvaluation
    /\ steps < MaxSteps
    /\ steps' = steps + 1
    /\ \E player_id \in {1, 8} :
        \E season \in Seasons(player_id) \ {<< >>} :
            /\ game_logs' = save_player_game_logs(game_logs, player_id,
                                get_player_last_n_games(season, 25))
            /\ evaluated' = NoEvaluation
            /\ UNCHANGED <<lineup_state, lookup, today, batch>>

\* A call of PlayerStatsService.calculate_over_under_history.
EvaluateOverUnder ==
    /\ evaluated = NoEvaluation
    /\ steps < MaxSteps
    /\ steps' = steps + 1
    /\ \E asked \in Asked, points_line \in PointsLines, num_games \in NumGamesOptions,
       use_local_only \in BOOLEAN :
      \E api_up \in IF asked[2] = None THEN {FALSE} ELSE BOOLEAN :
      \E first_season \in FirstSeasons(game_logs, asked[1], points_line, num_games,
                                       asked[2], use_local_only, api_up) :
      \E second_season \in IF first_season = << >>
                           THEN {<< >>, SeasonOf(1 :> Some(300))} ELSE {<< >>} :
        LET out == evaluate_over_under_history(game_logs, asked[1], points_line,
                       num_games, asked[2], use_local_only, api_up,
                       first_season, second_season)
        IN /\ evaluated' = [op |-> "calculate_over_under_history",
                            player_id |-> asked[1], player_name |-> asked[2],
                            points_line |-> points_line, num_games |-> num_games,
                            use_local_only |-> use_local_only,
                            result |-> out.result, calls |-> out.calls,
                            fetched |-> out.fetched, points |-> out.points]
           /\ UNCHANGED <<lineup_state, lookup, game_logs, today, batch>>

\* The caller has its result.
ReturnOverUnder ==
    /\ evaluated # NoEvaluation
    /\ evaluated' = NoEvaluation
    /\ UNCHANGED <<lineup_state, lookup, game_logs, steps, today, batch>>

InitEngine == Init /\ roster = [t \in Teams |-> << >>]
NextEngine ==
    \/ LoadPlayerGameLogs
    \/ EvaluateOverUnder
    \/ ReturnOverUnder
SpecEngine == InitEngine /\ [][NextEngine]_vars

\* ------------------------------------------------- game-log pre-load
\* Game days that pass one by one, from the start of the season and from
\* its game keep_count.
MaxDays == 1
\* Pre-loads run.
MaxBatches == 2
SeasonStarts == {0, keep_count}

\* The points the NBA API reports for a player (in tenths), and the
\* player's game log on a day: every game so far, most recent first.
PointsOn(player_id) == Some(100 + 10 * player_id)
SeasonAt(player_id, day) ==
    [i \in 1..day |-> Game(day + 1 - i, Matchup, PointsOn(player_id))]

\* fetch_thread.join(timeout=20.0) on a thread that does not end.
join_without_timeout(thread) == thread \in {"returned", "raised"}

\* fetch_thread.join(timeout=20.0): the loop goes on when the thread has
\* ended or the 20 seconds are over.
join(thread) == thread \in {"returned", "raised", "hangs"}

\* GameLogService.load_game_logs_for_event up to its loop: the rosters of
\* both teams from the NBA API (id, full_name).
StartBatch ==
    /\ batch.phase # "running"
    /\ steps < MaxBatches
    /\ steps' = steps + 1
    /\ \E home \in RosterOptions(HomeTeam), away \in RosterOptions(AwayTeam) :
          LET all_players == home \o away
          IN batch' = IF all_players = << >>
                      THEN [NoBatch EXCEPT !.phase = "done"]
                      ELSE [NoBatch EXCEPT !.phase = "running",
                                           !.todo = all_players]
    /\ UNCHANGED <<lineup_state, lookup, game_logs, evaluated, today>>

\* fetch_thread.start(): the fetch of the player returns, raises, or does
\* neither within the 20 seconds.
StartFetch ==
    /\ batch.phase = "running"
    /\ batch.todo # << >>
    /\ batch.thread = "none"
    /\ \E thread \in {"returned", "raised", "hangs"} :
          batch' = [batch EXCEPT !.thread = thread, !.joined = None,
                                 !.saved = None]
    /\ UNCHANGED <<lineup_state, lookup, game_logs, evaluated, today, steps>>

\* The games a thread started for a player on a day puts into the
\* result queue.
Fetched(player_id, day) == get_player_last_n_games(SeasonAt(player_id, day), 25)

\* The threads left behind by earlier players of the run that can end while
\* the loop waits for this one: none, or one of them, returning or raising.
StaleEnds(late) ==
    {None} \cup {Some([player_id |-> q, thread |-> k]) :
                    q \in late, k \in {"returned", "raised"}}

\* What result_queue.get_nowait() can give: the games of the thread joined
\* or those a stale thread put.
FirstResults(player_id, stale, day) ==
    {Fetched(player_id, day)}
        \cup (IF stale # None /\ stale[1].thread = "returned"
              THEN {Fetched(stale[1].player_id, day)} ELSE {})

\* The loop body after the join: is_alive() -> time-out error;
\* exception_queue not empty -> error; no games -> next player; else the
\* games saved under the player of this turn.
Outcome(thread, stale, first) ==
    IF thread = "hangs" THEN "timeout"
    ELSE IF thread = "raised" \/ (stale # None /\ stale[1].thread = "raised")
         THEN "error"
    ELSE IF first = << >> THEN "no_games"
    ELSE "saved"

AfterJoin(b, stale, first, logs) ==
    LET player_id == Head(b.todo).player_id
        outcome == Outcome(b.thread, stale, first)
        late == IF stale = None THEN b.late ELSE b.late \ {stale[1].player_id}
    IN [b EXCEPT
           !.todo = Tail(@), !.thread = "none",
           !.late = IF outcome = "timeout" THEN late \cup {player_id} ELSE late,
           !.errors = IF outcome \in {"timeout", "error"}
                      THEN @ \cup {<<player_id, outcome>>} ELSE @,
           !.players_processed = IF outcome = "saved" THEN @ + 1 ELSE @,
           !.joined = Some([player_id |-> player_id, outcome |-> outcome]),
           !.saved = IF outcome = "saved"
                     THEN Some([player_id |-> player_id, games |-> first,
                                before |-> logs])
                     ELSE None]

\* The rest of the loop body, from fetch_thread.join on.  fetch_games puts
\* into the result_queue and exception_queue the enclosing function holds
\* when it ends, so a thread left behind by an earlier player can end into
\* the queues of this one.
JoinFetch ==
    /\ batch.phase = "running"
    /\ batch.todo # << >>
    /\ join(batch.thread)
    /\ \E stale \in StaleEnds(batch.late) :
          \E first \in FirstResults(Head(batch.todo).player_id, stale, today) :
             /\ batch' = AfterJoin(batch, stale, first, game_logs)
             /\ game_logs' = IF Outcome(batch.thread, stale, first) = "saved"
                             THEN save_player_game_logs(
                                      game_logs, Head(batch.todo).player_id, first)
                             ELSE game_logs
    /\ UNCHANGED <<lineup_state, lookup, evaluated, today, steps>>

\* The loop is over: the result is built and returned.
ReturnBatch ==
    /\ batch.phase = "running"
    /\ batch.todo = << >>
    /\ batch' = [batch EXCEPT !.phase = "done", !.late = {}, !.joined = None,
                              !.saved = None]
    /\ UNCHANGED <<lineup_state, lookup, game_logs, evaluated, today, steps>>

\* The season goes on while no pre-load runs: by one game, or from its
\* start by the keep_count games before the service is used again.
DayPasses ==
    /\ batch.phase # "running"
    /\ \/ /\ \E start \in SeasonStarts : today \in start..(start + MaxDays - 1)
          /\ today' = today + 1
       \/ /\ today = 0
          /\ today' = keep_count
    /\ UNCHANGED <<lineup_state, lookup, game_logs, evaluated, batch, steps>>

InitGameLogs == InitEngine
NextGameLogs ==
    \/ StartBatch
    \/ StartFetch
    \/ JoinFetch
    \/ ReturnBatch
    \/ DayPasses
SpecGameLogs == InitGameLogs /\ [][NextGameLogs]_vars
\* The main thread of the pre-load keeps running.
SpecGameLogsLive ==
    SpecGameLogs /\ WF_vars(StartFetch) /\ WF_vars(JoinFetch) /\ WF_vars(ReturnBatch)

\* ---------------------------------------------------------- event look-up
\* datetime.fromisoformat(text.replace('Z', '+00:00')) for 'YYYY-MM-DD' and
\* 'YYYY-MM-DDTHH:MM:SSZ', as minutes since 2025-01-01T00:00Z (a value
\* without offset is taken as UTC); None where it raises.
Digits == <<"0", "1", "2", "3", "4", "5", "6", "7", "8", "9">>
IsDigit(c) == \E d \in 1..10 : Digits[d] = c
DigitOf(c) == (CHOOSE d \in 1..10 : Digits[d] = c) - 1
Number(s, from, to) ==
    FoldSeq(LAMBDA n, c : 10 * n + DigitOf(c), 0, SubSeq(s, from, to))
DaysBefore == <<0, 31, 59, 90, 120, 151, 181, 212, 243, 273, 304, 334>>
fromisoformat(text) ==
    LET digits(from, to) == \A i \in from..to : IsDigit(text[i])
        date_ok == /\ digits(1, 4) /\ text[5] = "-" /\ digits(6, 7)
                   /\ text[8] = "-" /\ digits(9, 10)
                   /\ Number(text, 6, 7) \in 1..12
                   /\ Number(text, 9, 10) \in 1..31
        time_ok == /\ text[11] = "T" /\ digits(12, 13) /\ text[14] = ":"
                   /\ digits(15, 16) /\ text[17] = ":" /\ digits(18, 19)
                   /\ text[20] = "Z"
                   /\ Number(text, 12, 13) < 24 /\ Number(text, 15, 16) < 60
        days == (Number(text, 1, 4) - 2025) * 365
                + DaysBefore[Number(text, 6, 7)] + Number(text, 9, 10) - 1
    IN IF Len(text) = 10 /\ date_ok THEN Some(days * 24 * 60)
       ELSE IF Len(text) = 20 /\ date_ok /\ time_ok
            THEN Some((days * 24 + Number(text, 12, 13)) * 60 + Number(text, 15, 16))
       ELSE None

\* The game_date of a game record: a datetime.date (the DATE column of the
\* games table as pymysql returns it), a str, or None.
DateValue(text) == [type |-> "date", value |-> text]
StrValue(text) == [type |-> "str", value |-> text]

\* _find_odds_api_event_id, "Parse game date if available": a str is
\* parsed, a datetime taken as it is; anything else leaves game_date_obj None.
game_date_obj(game_date) ==
    IF game_date = None THEN None
    ELSE IF game_date.type = "str" THEN fromisoformat(game_date.value)
    ELSE None

\* name.split(): the words between runs of whitespace.
RECURSIVE SplitWords(_)
SplitWords(s) ==
    LET t == LStrip(s)
        RECURSIVE WordLen(_)
        WordLen(k) == IF k < Len(t) /\ ~IsSpace(t[k + 1]) THEN WordLen(k + 1) ELSE k
    IN IF t = << >> THEN << >>
       ELSE <<SubSeq(t, 1, WordLen(0))>> \o SplitWords(SubSeq(t, WordLen(0) + 1, Len(t)))
\* ' '.join(words)
RECURSIVE JoinWords(_)
JoinWords(words) ==
    IF words = << >> THEN << >>
    ELSE IF Len(words) = 1 THEN words[1]
    ELSE words[1] \o <<" ">> \o JoinWords(Tail(words))

words_to_remove == {<<"t", "h", "e">>, <<"t", "e", "a", "m">>, <<"c", "l", "u", "b">>}
normalize_team_name(name) ==
    JoinWords(FilterSeq(LAMBDA w : w \notin words_to_remove, SplitWords(name)))

RatAdd(x, y) == <<x[1] * y[2] + y[1] * x[2], x[2] * y[2]>>
RatHalf(x) == <<x[1], 2 * x[2]>>
RatEq(x, y) == x[1] * y[2] = y[1] * x[2]

\* OddsService._calculate_team_match_score, as a fraction: from the
\* normalized names on, from the lower-case names on, and the whole.
ScoreNormalized(team1_lower, team2_lower, team1_normalized, team2_normalized) ==
    LET shorter == IF Len(team1_normalized) < Len(team2_normalized)
                   THEN Len(team1_normalized) ELSE Len(team2_normalized)
        longer == IF Len(team1_normalized) < Len(team2_normalized)
                  THEN Len(team2_normalized) ELSE Len(team1_normalized)
    IN IF team1_normalized = team2_normalized THEN <<19, 20>>
       ELSE IF /\ \/ Contains(team2_normalized, team1_normalized)
                  \/ Contains(team1_normalized, team2_normalized)
               /\ longer > 0
            THEN <<7 * longer + 2 * shorter, 10 * longer>>
       ELSE RatMax(SequenceRatio(team1_lower, team2_lower),
                   SequenceRatio(team1_normalized, team2_normalized))
ScoreLower(team1_lower, team2_lower) ==
    IF team1_lower = team2_lower THEN <<1, 1>>
    ELSE CHOOSE score \in
             {ScoreNormalized(team1_lower, team2_lower, n1, n2) :
                 n1 \in {normalize_team_name(team1_lower)},
                 n2 \in {normalize_team_name(team2_lower)}} : TRUE
calculate_team_match_score(team1, team2) ==
    IF team1 = << >> \/ team2 = << >> THEN <<0, 1>>
    ELSE CHOOSE score \in
             {ScoreLower(l1, l2) : l1 \in {Strip(Lower(team1))},
                                   l2 \in {Strip(Lower(team2))}} : TRUE

\* The games row of the game: full team names as the schedule has them.
HomeTeamName == <<"K", "i", "n", "g", "s">>
AwayTeamName == <<"B", "u", "l", "l", "s">>
GameRecord(game_date) ==
    [home_team_name |-> HomeTeamName, away_team_name |-> AwayTeamName,
     game_date |-> game_date]

\* An event of The Odds API.
Event(id, home_team, away_team, commence_time) ==
    [id |-> id, home_team |-> home_team, away_team |-> away_team,
     commence_time |-> commence_time]

\* 172800 seconds, in minutes
HOURS_48 == 2880
\* date_match of the loop: time_diff < 172800 seconds when both dates are
\* there, True otherwise.
date_match(date_obj, commence_time) ==
    IF date_obj = None \/ commence_time = None THEN TRUE
    ELSE LET event_date == fromisoformat(commence_time[1])
         IN IF event_date = None THEN TRUE
            ELSE LET diff == event_date[1] - date_obj[1]
                 IN (IF diff < 0 THEN 0 - diff ELSE diff) < HOURS_48

\* A tie goes to the later event.
better_or_equal(score, best_score) ==
    RatGE(score, best_score) /\ RatGE(score, <<6, 10>>)

\* match_score > best_score and match_score >= 0.6
better(score, best_score) ==
    RatGT(score, best_score) /\ RatGE(score, <<6, 10>>)

\* Commence times as The Odds API writes them (January 2025), and one it
\* has not fixed yet.
TwoDigits(n) == <<Digits[(n \div 10) + 1], Digits[(n % 10) + 1]>>
CommenceTime(day, hour) ==
    <<"2", "0", "2", "5", "-", "0", "1", "-">> \o TwoDigits(day) \o <<"T">>
        \o TwoDigits(hour) \o <<":", "0", "0", ":", "0", "0", "Z">>
Tbd == <<"t", "b", "d">>

\* The events the API can list.
EventPool ==
    {Event("e9", HomeTeamName, AwayTeamName, Some(CommenceTime(9, 19))),
     Event("e15", HomeTeamName, AwayTeamName, Some(CommenceTime(15, 19))),
     Event("e11", AwayTeamName, HomeTeamName, Some(CommenceTime(11, 0))),
     Event("eThe", <<"T", "h", "e", " ">> \o HomeTeamName, AwayTeamName, Some(Tbd)),
     Event("eSac", <<"S", "a", "c", " ">> \o HomeTeamName, AwayTeamName, None),
     Event("eOther", <<"S", "t", "a", "r", "s">>, <<"D", "u", "c", "k", "s">>,
           Some(CommenceTime(9, 19)))}
\* _calculate_team_match_score for the names that occur.
team_match_score ==
    [team1 \in {HomeTeamName, AwayTeamName},
     team2 \in {e.home_team : e \in EventPool} \cup {e.away_team : e \in EventPool}
        |-> calculate_team_match_score(team1, team2)]

\* match_score of the loop: the better of the two assignments of the teams.
match_score(game, event) ==
    RatMax(RatHalf(RatAdd(team_match_score[game.home_team_name, event.home_team],
                          team_match_score[game.away_team_name, event.away_team])),
           RatHalf(RatAdd(team_match_score[game.home_team_name, event.away_team],
                          team_match_score[game.away_team_name, event.home_team])))

\* One turn of the loop over the events.
Scored(acc, event, score) ==
    IF better(score, acc.best_score)
    THEN [acc EXCEPT !.survivors = Append(@, event),
                     !.best_match = Some(event.id), !.best_score = score]
    ELSE [acc EXCEPT !.survivors = Append(@, event)]
NextBest(acc, game, date_obj, event) ==
    IF ~date_match(date_obj, event.commence_time) THEN acc
    ELSE CHOOSE r \in {Scored(a, event, score) :
                          a \in {acc}, score \in {match_score(game, event)}} : TRUE

\* OddsService._find_odds_api_event_id on the events of the API: the id
\* returned (or None) and the events that passed the date check.
find_odds_api_event_id(game, events) ==
    LET date_obj == game_date_obj(game.game_date)
        end == FoldSeq(LAMBDA acc, event : NextBest(acc, game, date_obj, event),
                       [best_match |-> None, best_score |-> <<0, 1>>,
                        survivors |-> << >>],
                       events)
    IN [event_id |-> end.best_match, survivors |-> end.survivors]

MaxEvents == 2
EventLists ==
    {events \in UNION {[1..n -> EventPool] : n \in 0..MaxEvents} :
        \A i, j \in 1..Len(events) : events[i] = events[j] => i = j}
GameDateValues == {None, DateValue(GameDate), StrValue(GameDate), StrValue(Tbd)}

\* OddsService._find_odds_api_event_id(game) for the game, on what
\* odds_api.get_events_for_sport() answers.
\* OddsAPIClient.get_events_for_sport: the events of the answer; [] when
\* the request fails or times out (answer None).
get_events_for_sport(answer) == IF answer = None THEN << >> ELSE answer[1]

\* What get_player_points_odds_for_game goes on with after the look-up:
\* without an event id it returns success False with the message `Could
\* not find matching event`.
lookup_outcome(event_id) ==
    IF event_id = None THEN "could_not_find_matching_event" ELSE "event_found"

FindOddsApiEventId ==
    /\ resolved = NoLookup
    /\ \E game_date \in GameDateValues,
          answer \in {None} \cup {Some(events) : events \in EventLists} :
          LET events == get_events_for_sport(answer)
              found == find_odds_api_event_id(GameRecord(game_date), events)
          IN resolved' = [op |-> "_find_odds_api_event_id",
                          game |-> GameRecord(game_date),
                          request |-> IF answer = None THEN "failed" ELSE "answered",
                          events |-> events,
                          survivors |-> found.survivors,
                          event_id |-> found.event_id,
                          outcome |-> lookup_outcome(found.event_id)]
    /\ UNCHANGED <<lineup_state, game_logs, evaluated, today, batch, steps, fetching>>

ReturnEventId ==
    /\ resolved # NoLookup
    /\ resolved' = NoLookup
    /\ UNCHANGED <<lineup_state, game_logs, evaluated, today, batch, steps, fetching>>

NextLookup ==
    \/ FindOddsApiEventId
    \/ ReturnEventId
SpecLookup == InitEngine /\ [][NextLookup]_vars

\* ------------------------------------------- lineup import, failing inserts
\* A lineup import statement by statement, after whatever ran before it.
\* Every repository call opens its own connection and commits; an insert
\* that raises is logged and the loop goes on with the next player.
StartImport ==
    /\ Idle
    /\ \E date \in Dates, lineups \in LineupsOptions :
          /\ ~NoLineups(lineups)
          /\ race' = [NoRace EXCEPT
                         !.phase = "running", !.odds = "done",
                         !.statements = ImportStatements(roster, date, lineups),
                         !.date = date, !.lineups = lineups, !.before = rows]
    /\ last' = Done("start", {})
    /\ UNCHANGED <<rows, roster, steps, run, side>>

\* save_lineup_for_game or save_bench_player_for_game raises.
InsertRaises ==
    /\ race.phase = "running"
    /\ race.statements # << >>
    /\ Head(race.statements).op # "delete_lineups_for_team_game"
    /\ race' = [race EXCEPT !.statements = Tail(@),
                            !.failed = @ \cup {Head(race.statements).team}]
    /\ last' = Done("import_lineups_for_date", {"save_error"})
    /\ UNCHANGED <<rows, roster, steps, run, side>>

ImportReturns ==
    /\ race.phase = "running"
    /\ race.statements = << >>
    /\ race.odds = "done"
    /\ race' = [race EXCEPT !.phase = "returned"]
    /\ last' = Done("import_lineups_for_date", {"returned"})
    /\ UNCHANGED <<rows, roster, steps, run, side>>

NextImportFaults ==
    \/ Prelude
    \/ StartImport
    \/ LineupStatement
    \/ InsertRaises
    \/ ImportReturns
SpecImportFaults == Init /\ [][NextImportFaults]_vars

\* ------------------------------------------------------- team name scores
\* Team names to score against one another: none, blank, the game's names in
\* several spellings, sub-names, filler words and unrelated names.
TeamNamePool ==
    {<< >>, <<" ">>, HomeTeamName, Lower(HomeTeamName), HomeTeamName \o <<" ">>,
     <<"T", "h", "e", " ">> \o HomeTeamName, <<"S", "a", "c", " ">> \o HomeTeamName,
     AwayTeamName, <<"K", "i", "d", "s">>, <<"D", "i", "s", "k">>,
     <<"t", "h", "e">>, <<"c", "l", "u", "b">>, <<"S", "t", "a", "r", "s">>}

\* A call of _calculate_team_match_score and its return.
CalculateTeamMatchScore ==
    /\ resolved = NoLookup
    /\ \E team1 \in TeamNamePool, team2 \in TeamNamePool :
          resolved' = [op |-> "_calculate_team_match_score",
                       team1 |-> team1, team2 |-> team2,
                       score |-> calculate_team_match_score(team1, team2)]
    /\ UNCHANGED <<lineup_state, game_logs, evaluated, today, batch, steps, fetching>>
ReturnTeamMatchScore ==
    /\ resolved # NoLookup
    /\ resolved' = NoLookup
    /\ UNCHANGED <<lineup_state, game_logs, evaluated, today, batch, steps, fetching>>
NextTeamScore ==
    \/ CalculateTeamMatchScore
    \/ ReturnTeamMatchScore
SpecTeamScore == InitEngine /\ [][NextTeamScore]_vars

\* --------------------------------------------------------- name spellings
\* Player names as they can arrive: every text of up to MaxNameLen
\* characters over letters in both cases, with and without accent, blanks
\* and apostrophes.
MaxNameLen == 3
NameChars == {"D", "d", "E", "e", "É", "é", " ", "'"}
RECURSIVE TextsOfLen(_)
TextsOfLen(n) ==
    IF n = 0 THEN {<< >>}
    ELSE {Append(t, c) : t \in TextsOfLen(n - 1), c \in NameChars}
Spellings == UNION {TextsOfLen(n) : n \in 0..MaxNameLen}

\* The letter a character writes, whatever its case and its accent.
Letter(c) ==
    CASE c \in {"D", "d"} -> "d"
      [] c \in {"E", "e", "É", "é"} -> "e"
      [] OTHER -> c
\* Two spellings of one name: the same letters, in any case, with or
\* without accents.
SameSpelling(name, other) ==
    /\ Len(name) = Len(other)
    /\ \A i \in 1..Len(name) : Letter(name[i]) = Letter(other[i])

\* A name and a respelling of it go through both normalizations; the
\* results go through them once more.
NormalizeNames ==
    /\ resolved = NoLookup
    /\ \E name \in Spellings :
          \E other \in {o \in TextsOfLen(Len(name)) : SameSpelling(name, o)} :
             resolved' =
                [op |-> "normalize", name |-> name, other |-> other,
                 lineup |-> normalize_player_name(name),
                 lineup_other |-> normalize_player_name(other),
                 lineup_again |-> normalize_player_name(normalize_player_name(name)),
                 odds |-> normalize_player_name_for_matching(name),
                 odds_other |-> normalize_player_name_for_matching(other),
                 odds_again |-> normalize_player_name_for_matching(
                                    normalize_player_name_for_matching(name))]
    /\ UNCHANGED <<lineup_state, game_logs, evaluated, today, batch, steps, fetching>>
\* A published name and a roster name, looked up for an exact match by the
\* lineup import (nba_players_map.get of the normalized name) and by the
\* odds merge (_find_matching_player_in_list: the lower-cased names, then
\* the normalized names).
ShortSpellings == UNION {TextsOfLen(n) : n \in 0..(MaxNameLen - 1)}
lineup_exact_match(name, roster_name) ==
    normalize_player_name(name) = normalize_player_name(roster_name)
odds_exact_match(name, roster_name) ==
    \/ Strip(Lower(name)) = Strip(Lower(roster_name))
    \/ normalize_name(name) = normalize_name(roster_name)
MatchNames ==
    /\ resolved = NoLookup
    /\ \E name \in ShortSpellings \ {<< >>}, roster_name \in ShortSpellings \ {<< >>} :
          resolved' = [op |-> "match", name |-> name, roster_name |-> roster_name,
                       lineup |-> lineup_exact_match(name, roster_name),
                       odds |-> odds_exact_match(name, roster_name)]
    /\ UNCHANGED <<lineup_state, game_logs, evaluated, today, batch, steps, fetching>>
ReturnNames ==
    /\ resolved # NoLookup
    /\ resolved' = NoLookup
    /\ UNCHANGED <<lineup_state, game_logs, evaluated, today, batch, steps, fetching>>
NextNames ==
    \/ NormalizeNames
    \/ MatchNames
    \/ ReturnNames
SpecNames == InitEngine /\ [][NextNames]_vars

\* ----------------------------------------------------------- roster fetch
\* One turn of the loop of import_rosters_from_nba_api, step by step:
\* get_team_players with its attempts at CommonTeamRoster, then the save.
max_retries == 3

\* What one attempt can come to: it raises (a time-out by its message, or
\* another error), or it answers no data frames, an empty one or the roster.
Failures == {"timeout", "error"}
Answers == {"no_data_frames", "empty", "roster"}

\* for attempt in range(max_retries): not after the last attempt.
retries(attempts) == Len(attempts) < max_retries

FetchTeamRoster ==
    /\ fetching.phase = "idle"
    /\ \E team \in Teams :
          fetching' = [NoFetch EXCEPT !.phase = "requesting", !.team = team]
    /\ UNCHANGED <<rows, roster, last, run, race, steps, game_logs, evaluated,
                   today, batch, resolved>>

\* An attempt: on success the loop is left; on a failure that is not the
\* last attempt's the client sleeps and asks again; after the last it
\* returns [].
RequestRoster ==
    /\ fetching.phase = "requesting"
    /\ \E outcome \in Failures \cup Answers :
          LET attempts == Append(fetching.attempts, outcome)
          IN fetching' =
                IF outcome \in Failures /\ retries(attempts)
                THEN [fetching EXCEPT !.attempts = attempts]
                ELSE [fetching EXCEPT
                         !.attempts = attempts, !.phase = "returned",
                         !.players = IF outcome = "roster"
                                     THEN NbaRoster(fetching.team) ELSE << >>]
    /\ UNCHANGED <<rows, roster, last, run, race, steps, game_logs, evaluated,
                   today, batch, resolved>>

\* Back in the import: no players, the team is skipped; else its roster is
\* replaced (save_depth_chart).
SaveTeamRoster ==
    /\ fetching.phase = "returned"
    /\ roster' = IF fetching.players = << >> THEN roster
                 ELSE [roster EXCEPT ![fetching.team] = fetching.players]
    /\ fetching' = NoFetch
    /\ UNCHANGED <<rows, last, run, race, steps, game_logs, evaluated,
                   today, batch, resolved>>

NextRosterFetch ==
    \/ FetchTeamRoster
    \/ RequestRoster
    \/ SaveTeamRoster
SpecRosterFetch == InitEngine /\ [][NextRosterFetch]_vars

\* ------------------------------------------------------------ properties
RowsOf(R, team, id) == {r \in R : r.team = team /\ r.player_id = id}
StarterRows(R, team, id) == {r \in RowsOf(R, team, id) : r.player_status = STARTER}
BenchRows(R, team, id) == {r \in RowsOf(R, team, id) : r.player_status = BENCH}
IsStarter(R, team, id) == StarterRows(R, team, id) # {}
IsBench(R, team, id) == BenchRows(R, team, id) # {}
IdsIn(R) == {r.player_id : r \in R}

LineupImport == {"import_lineups_for_date", "import_lineups_from_dict"}
OddsMerge == "get_player_points_odds_for_game"

\* C1: once a (game, team, playerId) owns a STARTER row, no later lineup
\* import or odds merge leaves that player BENCH: no operation takes a
\* player who owns a STARTER row to owning BENCH rows only.
C1_StarterNeverDowngraded ==
    [][\A t \in Teams : \A id \in IdsIn(rows) :
          IsStarter(rows, t, id) =>
              ~(IsBench(rows', t, id) /\ ~IsStarter(rows', t, id))]_vars

\* C3: in every reachable state, for each (game, team) no player id owns
\* more than one row with status STARTER.
C3_OneStarterRowPerPlayer ==
    \A t \in Teams : \A id \in IdsIn(rows) :
        Cardinality(StarterRows(rows, t, id)) <= 1

\* C2: when a lineup import resolves a different player at a position that
\* holds a STARTER row, or omits a player who was STARTER, the older STARTER
\* row wins: after the import a row with its key still carries its
\* playerId, position and status.
C2_OlderStarterRowWins ==
    [][last'.op \in LineupImport =>
          \A r \in rows :
              r.player_status = STARTER =>
                  \E q \in rows' : /\ KeyOf(q) = KeyOf(r)
                                    /\ q.player_id = r.player_id
                                    /\ q.player_status = STARTER]_vars

ValidLines == {l \in QuoteLines : l.points_line # None}
BenchKeys(R, team, id) == {KeyOf(r) : r \in BenchRows(R, team, id)}

\* C4: when player P owns a STARTER row and an odds quote names P under
\* another spelling that the roster still resolves to P's id, the merge
\* writes no BENCH row for P's id.
C4_NoBenchRowForStarter ==
    \A lineup \in get_lineup_by_game_id(rows), api_up \in BOOLEAN,
       name \in QuoteNames, l \in ValidLines :
        LET P == matching_player[name, team_players_list(roster, api_up)]
            merged == match_players_with_odds(rows, lineup, <<Quote(name, l)>>,
                                              roster, api_up)
        IN (/\ P # None
            /\ IsStarter(rows, P[1].team, P[1].player_id)
            /\ \A r \in StarterRows(rows, P[1].team, P[1].player_id) :
                   r.player_name # name)
           => /\ "bench_saved" \notin merged.log
              /\ BenchKeys(merged.rows, P[1].team, P[1].player_id)
                    \subseteq BenchKeys(rows, P[1].team, P[1].player_id)

\* The roster player `id` is the one `name` spells.
Names(id, name) ==
    \E t \in Teams : \E i \in 1..Len(NbaRoster(t)) :
        /\ NbaRoster(t)[i].player_id = id
        /\ normalize_name(NbaRoster(t)[i].player_name) = normalize_name(name)
OnlySF(R, team, id) ==
    /\ Cardinality(RowsOf(R, team, id)) = 1
    /\ \A r \in RowsOf(R, team, id) :
           r.position = "SF" /\ r.player_status = STARTER

\* C5: after an odds merge has created the BENCH row 'BENCH-<id>' of player
\* P, importing a lineup payload that names P at SF leaves P with exactly
\* one row of the team, at SF with status STARTER, and no BENCH row.
C5_BenchPromotedToSF ==
    (last.op = OddsMerge /\ "bench_saved" \in last.log) =>
        \A b \in {r \in rows : /\ r.position = BenchPosition(r.player_id)
                               /\ r.player_status = BENCH
                               /\ r.points_line # None} :
            /\ \A date \in Dates, lineups \in LineupsOptions :
                   ("SF" \in DOMAIN lineups[b.team]
                       /\ Names(b.player_id, lineups[b.team]["SF"].name))
                   => OnlySF(save_lineups_with_depth_chart(
                                 rows, roster, date, lineups).rows,
                             b.team, b.player_id)
            /\ \A lineups \in DictOptions :
                   ("SF" \in DOMAIN lineups[b.team]
                       /\ lineups[b.team]["SF"].playerId = b.player_id)
                   => OnlySF(save_lineups_for_game(rows, GameDate, lineups).rows,
                             b.team, b.player_id)

\* A row without its lines and over/under history.
Core(r) ==
    [team |-> r.team, lineup_date |-> r.lineup_date, position |-> r.position,
     player_id |-> r.player_id, player_name |-> r.player_name,
     confirmed |-> r.confirmed, player_status |-> r.player_status]
LinesOnly(R, R2) ==
    /\ {Core(r) : r \in R2} = {Core(r) : r \in R}
    /\ Cardinality(R2) = Cardinality(R)
    /\ \A r \in R2 \ R :
           \E q \in R : /\ q.team = r.team /\ q.player_id = r.player_id
                         /\ q.position \in PositionSet

\* C7: an odds merge whose quotes resolve to STARTER rows changes only the
\* lines and over/under history of rows of those starters: position,
\* status, playerId and playerName of every row stay, and no row is
\* inserted or deleted.
C7_StarterQuoteChangesLinesOnly ==
    [][(/\ last'.op = OddsMerge
        /\ "starter_updated" \in last'.log
        /\ "bench_saved" \notin last'.log) => LinesOnly(rows, rows')]_vars

C7_Witness ==
    /\ last.op = OddsMerge
    /\ "starter_updated" \in last.log
    /\ "bench_saved" \notin last.log
    /\ \E r \in rows : /\ r.position \in PositionSet
                        /\ r.player_status = STARTER
                        /\ r.points_line = Some(2)
                        /\ r.assists_line = Some(1)

\* No roster player of the team has the entry's name, exactly, after
\* LineupService's normalization.
NoExactMatch(players, name) ==
    \A i \in 1..Len(players) :
        normalize_player_name(players[i].player_name) # normalize_player_name(name)

Similar(a, b) ==
    \/ RatGE(SequenceRatio(normalize_name(a), normalize_name(b)), <<3, 4>>)
    \/ RatGE(SequenceRatio(Strip(Lower(a)), Strip(Lower(b))), <<3, 4>>)
    \/ Contains(normalize_name(a), normalize_name(b))
    \/ Contains(normalize_name(b), normalize_name(a))
RosterNames ==
    UNION {{NbaRoster(t)[i].player_name : i \in 1..Len(NbaRoster(t))} : t \in Teams}
SimilarNames == {pair \in QuoteNames \X RosterNames : Similar(pair[1], pair[2])}
\* The quote's name matches no STARTER row and no roster player.
Unresolvable(name, players) ==
    /\ \A r \in rows :
           r.player_status = STARTER
               => normalized_name[r.player_name] # normalized_name[name]
    /\ \A i \in 1..Len(players) :
           <<name, players[i].player_name>> \notin SimilarNames
InsertAt(q, k, u) == SubSeq(q, 1, k) \o <<u>> \o SubSeq(q, k + 1, Len(q))

\* C10: an odds quote whose name matches neither a STARTER row nor, exactly
\* or with similarity >= 0.75, a roster player of either team is dropped:
\* the merge writes the rows and returns the list it writes and returns
\* without that quote, whatever other quotes come before or after it.
C10_UnresolvableQuoteDropped ==
    \A api_up \in BOOLEAN, name \in QuoteNames :
        Unresolvable(name, team_players_list(roster, api_up)) =>
            \A lineup \in get_lineup_by_game_id(rows), l \in ValidLines,
               q \in {s \in QuoteSeqs : \A i \in 1..Len(s) :
                                          /\ s[i].name # name
                                          /\ s[i].points_line # None} :
                \A without \in {match_players_with_odds(rows, lineup, q,
                                                        roster, api_up)} :
                    \A k \in 0..Len(q) :
                        \A with \in {match_players_with_odds(
                                          rows, lineup,
                                          InsertAt(q, k, Quote(name, l)),
                                          roster, api_up)} :
                            /\ with.rows = without.rows
                            /\ with.matched_players = without.matched_players
                            /\ "not_found" \in with.log

C10_Witness ==
    /\ last.op = OddsMerge
    /\ "not_found" \in last.log
    /\ roster[HomeTeam] # << >>
    /\ roster[AwayTeam] # << >>
    /\ \E r \in rows : r.player_status = STARTER

\* No player id of a team owns both a STARTER row and a BENCH row.
StarterPrecedence(R) ==
    \A t \in Teams : \A id \in IdsIn(R) : ~(IsStarter(R, t, id) /\ IsBench(R, t, id))
RaceDone ==
    race.phase = "running" /\ race.statements = << >> /\ race.odds = "done"
\* The tables after the import and the merge of the race, run one after the
\* other: import first, or merge first.
SerialOutcomes ==
    LET imported == import_lineups_for_date(race.before, roster, race.date,
                                            race.lineups).rows
        merged == {match_players_with_odds(race.before, v, race.quotes, roster,
                                           race.api_up).rows :
                      v \in get_lineup_by_game_id(race.before)}
    IN {match_players_with_odds(imported, v, race.quotes, roster, race.api_up).rows :
           v \in get_lineup_by_game_id(imported)}
       \cup {import_lineups_for_date(R, roster, race.date, race.lineups).rows :
                R \in merged}

\* C6: whatever the interleaving of the statements of a lineup import and
\* of an odds merge on the same game, when both have finished no player id
\* owns both a STARTER row and a BENCH row and no player the import saved
\* as STARTER is left BENCH only (stated for the races whose two serial
\* orders keep this).
C6_RaceKeepsStarterPrecedence ==
    (/\ RaceDone
     /\ StarterPrecedence(race.before)
     /\ \A R \in SerialOutcomes : StarterPrecedence(R))
    => /\ StarterPrecedence(rows)
       /\ \A i \in 1..Len(ImportStatements(roster, race.date, race.lineups)) :
             LET st == ImportStatements(roster, race.date, race.lineups)[i]
             IN st.op = "save_lineup_for_game"
                   => ~(/\ IsBench(rows, st.team, st.player_id)
                        /\ ~IsStarter(rows, st.team, st.player_id))

\* C8: after the pipeline (roster import, lineup import, odds merge) has
\* run a second time on the same provider answers, game_lineups holds the
\* rows it held after the first run: same keys, same status, same lines.
C8_PipelineTwiceSameRows ==
    run.phase = 6 => rows = run.first

\* C11: after an odds merge no row of game_lineups and no matched-player
\* record the merge returns carries an over_under_history with
\* total_games = 0: for a player without local games the field is left
\* out.
NoZeroHistory(ouh) == ouh # None => ouh[1].total_games > 0
C11_NoZeroGamesHistory ==
    /\ \A r \in rows : NoZeroHistory(r.over_under_history)
    /\ \A lineup \in get_lineup_by_game_id(rows), q \in QuoteSeqs, api_up \in BOOLEAN :
           \A merged \in {match_players_with_odds(rows, lineup, q, roster, api_up)} :
               /\ \A r \in merged.rows : NoZeroHistory(r.over_under_history)
               /\ \A i \in 1..Len(merged.matched_players) :
                      NoZeroHistory(merged.matched_players[i].over_under_history)
\* A merge has written the lines of a player without local games (its
\* history left out) next to a player whose history it stored.
C11_Witness ==
    /\ last.op = OddsMerge
    /\ \E r \in rows : /\ r.points_line = Some(2)
                        /\ LocalGames(r.player_id) = 0
                        /\ r.over_under_history = None
    /\ \E r \in rows : /\ r.over_under_history # None
                        /\ r.over_under_history[1].total_games > 0

\* ------------------------------------------------------- over/under engine
Evaluated == evaluated.op = "calculate_over_under_history"
\* pct (in tenths) is num / den * 100 to the nearest tenth.
NearestTenth(pct, num, den) ==
    LET diff == pct * den - num * 1000
    IN 2 * (IF diff < 0 THEN 0 - diff ELSE diff) <= den

\* C12: an evaluation of a list of games against a line returns over_count
\* = the games with points above the line, under_count = the games with
\* points below it, total_games = the games that have points (a game on the
\* line counts in total_games only), and the percentages count /
\* total_games * 100 to one decimal, 0.0 without games; [30, 18, 25]
\* against 22.5 gives 2, 1, 3 and 66.7.
C12_OverUnderCounts ==
    Evaluated =>
        LET p == evaluated.points
            line == evaluated.points_line
            r == evaluated.result
            with_points == {i \in 1..Len(p) : p[i] # None}
            over == Cardinality({i \in with_points : p[i][1] > line})
            under == Cardinality({i \in with_points : p[i][1] < line})
            total == Cardinality(with_points)
        IN /\ r.over_count = over
           /\ r.under_count = under
           /\ r.total_games = total
           /\ total = 0 => r.over_percentage = 0 /\ r.under_percentage = 0
           /\ total > 0 => /\ NearestTenth(r.over_percentage, over, total)
                           /\ NearestTenth(r.under_percentage, under, total)
           /\ (p = <<Some(300), Some(180), Some(250)>> /\ line = 225)
                  => /\ r.over_count = 2 /\ r.under_count = 1
                     /\ r.total_games = 3 /\ r.over_percentage = 667
\* The games [30, 18, 25] have been evaluated against 22.5, from the local
\* rows.
C12_Witness ==
    /\ Evaluated
    /\ evaluated.points = <<Some(300), Some(180), Some(250)>>
    /\ evaluated.points_line = 225
    /\ evaluated.result.source = "local_db"
    /\ evaluated.result.over_percentage = 667
    /\ evaluated.result.under_percentage = 333

\* C13: a local-only evaluation of a player without local game logs
\* returns a result with total_games = 0 and calls nothing upstream:
\* neither find_nba_player_id_by_name nor get_player_last_n_games.
C13_LocalOnlyNoUpstream ==
    (Evaluated /\ evaluated.use_local_only
       /\ LogsOf(game_logs, evaluated.player_id) = {})
    => /\ evaluated.result.total_games = 0
       /\ evaluated.result.over_count = 0
       /\ evaluated.result.under_count = 0
       /\ evaluated.calls = << >>
\* A local-only evaluation by id and name of a player without rows, in a
\* store that has rows of another player.
C13_Witness ==
    /\ Evaluated
    /\ evaluated.use_local_only
    /\ evaluated.player_name # None
    /\ LogsOf(game_logs, evaluated.player_id) = {}
    /\ game_logs # {}
    /\ evaluated.result.total_games = 0

\* C14: get_player_last_n_games is called only when the evaluation is not
\* local-only and the store has no game of the requested player_id; when
\* the store has a game of that player_id, the result is the evaluation of
\* its local rows (most recent first, at most num_games) and nothing is
\* fetched live.
LiveFetch ==
    \E i \in 1..Len(evaluated.calls) :
        evaluated.calls[i].op = "get_player_last_n_games"
C14_LiveFetchOnlyWithoutLocalGames ==
    Evaluated =>
        /\ LiveFetch => /\ ~evaluated.use_local_only
                        /\ LogsOf(game_logs, evaluated.player_id) = {}
        /\ LogsOf(game_logs, evaluated.player_id) # {}
              => /\ ~LiveFetch
                 /\ evaluated.result =
                        Tally(PointsOf(get_player_game_logs(game_logs,
                                  evaluated.player_id, evaluated.num_games)),
                              evaluated.points_line, "local_db")

\* C15: when an evaluation has fetched games live, the games are rows of
\* the store when it returns, so that a local-only evaluation that follows
\* finds them.
C15_FetchedGamesPersisted ==
    (Evaluated /\ evaluated.fetched # << >>)
    => \A i \in 1..Len(evaluated.fetched) :
           \E r \in game_logs :
               /\ r.game_date = evaluated.fetched[i].game_date
               /\ r.matchup = evaluated.fetched[i].matchup
               /\ r.points = evaluated.fetched[i].pts

\* C16: after a save_player_game_logs call a player has at most keep_count
\* rows, no two of them for the same (player_id, game_date, matchup); the
\* rows kept are the most recent by game_date of the rows there were and
\* the games saved, and saving games that are all there adds no row.
GameDates(S) == {r.game_date : r \in S}
C16_SaveKeepsMostRecent ==
    /\ \A player_id \in {r.player_id : r \in game_logs} :
          LET mine == LogsOf(game_logs, player_id)
          IN /\ Cardinality(mine) <= keep_count
             /\ \A r, q \in mine :
                   (r.game_date = q.game_date /\ r.matchup = q.matchup) => r = q
    /\ batch.saved # None =>
          LET s == batch.saved[1]
              before == GameDates(LogsOf(s.before, s.player_id))
              saved == {s.games[i].game_date : i \in 1..Len(s.games)}
              present == before \cup saved
              kept == GameDates(LogsOf(game_logs, s.player_id))
          IN /\ kept \subseteq present
             /\ Cardinality(kept) = IF Cardinality(present) > keep_count
                                    THEN keep_count ELSE Cardinality(present)
             /\ \A d \in present \ kept : \A k \in kept : k > d
             /\ saved \subseteq before =>
                   Cardinality(LogsOf(game_logs, s.player_id))
                       = Cardinality(LogsOf(s.before, s.player_id))
\* A save that left more than keep_count games to choose from.
C16_Witness ==
    /\ batch.saved # None
    /\ LET s == batch.saved[1]
       IN Cardinality(GameDates(LogsOf(s.before, s.player_id))
                      \cup {s.games[i].game_date : i \in 1..Len(s.games)})
              > keep_count

\* C20: in the pre-load a player whose fetch is not back after the 20
\* seconds is skipped (nothing is saved in that turn of the loop), the
\* time-out is recorded for the player and the loop is at the next player;
\* and a pre-load that runs comes to its end, whatever the fetches do.
TimedOutPlayerSkipped ==
    (batch.phase = "running" /\ batch.thread = "hangs" /\ batch' # batch)
        => /\ game_logs' = game_logs
           /\ <<Head(batch.todo).player_id, "timeout">> \in batch'.errors
           /\ batch'.todo = Tail(batch.todo)
           /\ batch'.phase = "running"
C20_TimeoutSkippedBatchCompletes ==
    /\ [][TimedOutPlayerSkipped]_vars
    /\ (batch.phase = "running") ~> (batch.phase = "done")
\* A pre-load that came to its end with a player timed out.
C20_Witness ==
    /\ batch.phase = "done"
    /\ \E e \in batch.errors : e[2] = "timeout"

\* C17: the event look-up drops an event on its date exactly when the
\* game's date and the event's commence_time are both dates and more than
\* 48 hours apart; and for the game of 2025-01-09 with the events e9
\* (2025-01-09T19:00Z) and e15 (2025-01-15T19:00Z), both with the game's
\* teams, it returns e9 in either order.
DateOf(game_date) ==
    IF game_date = None THEN None ELSE fromisoformat(game_date.value)
Apart(a, b) == IF a < b THEN b - a ELSE a - b
TooFarApart(game_date, commence_time) ==
    /\ DateOf(game_date) # None
    /\ commence_time # None
    /\ fromisoformat(commence_time[1]) # None
    /\ Apart(DateOf(game_date)[1], fromisoformat(commence_time[1])[1]) > HOURS_48
Survives(event) ==
    \E i \in 1..Len(resolved.survivors) : resolved.survivors[i] = event
C17_DateFilter ==
    resolved # NoLookup =>
        /\ \A i \in 1..Len(resolved.events) :
              ~Survives(resolved.events[i])
                  <=> TooFarApart(resolved.game.game_date,
                                  resolved.events[i].commence_time)
        /\ (/\ DateOf(resolved.game.game_date) = fromisoformat(GameDate)
            /\ {resolved.events[i].id : i \in 1..Len(resolved.events)} = {"e9", "e15"})
               => resolved.event_id = Some("e9")

\* C18: of the events that passed the date check the look-up returns the
\* first with the highest match score when that score is at least 0.6, and
\* None when no such event has a score of 0.6.
ScoreOf(event) == match_score(resolved.game, event)
C18_BestScoreFirstSeen ==
    resolved # NoLookup =>
        LET survivors == resolved.survivors
            good == {i \in 1..Len(survivors) : RatGE(ScoreOf(survivors[i]), <<6, 10>>)}
            top == {i \in good : \A j \in good :
                       RatGE(ScoreOf(survivors[i]), ScoreOf(survivors[j]))}
        IN IF good = {} THEN resolved.event_id = None
           ELSE resolved.event_id
                    = Some(survivors[CHOOSE i \in top : \A j \in top : i <= j].id)
\* Two events with the highest score, the first returned.
C18_Witness ==
    /\ resolved # NoLookup
    /\ Len(resolved.survivors) = 2
    /\ RatEq(ScoreOf(resolved.survivors[1]), ScoreOf(resolved.survivors[2]))
    /\ RatGE(ScoreOf(resolved.survivors[1]), <<6, 10>>)
    /\ resolved.event_id = Some(resolved.survivors[1].id)

\* C19: when the bulk roster import fails on a team (its fetch or its save
\* raises or times out), the failure is among the errors of the result,
\* every other team is still attempted (a team reported saved has the
\* roster the API answered), and the roster of a team not saved is as it
\* was.
Reported(outcome, team) == (outcome \o ":" \o team) \in last'.log
RosterImportStep ==
    /\ last'.op = "import_rosters_from_nba_api"
    /\ steps' = steps + 1
C19_RosterImportIsolated ==
    [][RosterImportStep =>
         \A t \in Teams :
            /\ \E outcome \in {"saved", "no_players", "request_error", "import_error"} :
                  Reported(outcome, t)
            /\ Reported("saved", t) => roster'[t] = NbaRoster(t)
            /\ ~Reported("saved", t) => roster'[t] = roster[t]
            /\ Reported("request_error", t) => Reported("import_error", t)]_vars

\* C21: in the pre-load only the games of the fetch that was joined within
\* its 20 seconds are saved, under the player of that fetch: the games of a
\* fetch that timed out never reach the game-log store, also when its
\* thread ends later.
C21_TimedOutFetchNeverWrites ==
    /\ batch.saved # None =>
          batch.saved[1].games = Fetched(batch.saved[1].player_id, today)
    /\ \A r \in game_logs : r.points = PointsOn(r.player_id)

\* C22: when the request for the event list fails or times out, the event
\* look-up and the odds merge report something else than they report for
\* an event list that is empty or holds no matching event.
NoMatchReports ==
    {[event_id |-> find_odds_api_event_id(resolved.game, events).event_id,
      outcome |-> lookup_outcome(find_odds_api_event_id(resolved.game, events).event_id)] :
        events \in {e \in EventLists :
                       find_odds_api_event_id(resolved.game, e).event_id = None}}
C22_FailureDistinctFromNoMatch ==
    (resolved # NoLookup /\ resolved.request = "failed") =>
        [event_id |-> resolved.event_id, outcome |-> resolved.outcome]
            \notin NoMatchReports

\* C23: a roster request that ran out of time is not sent again within the
\* same call: no attempt follows an attempt that timed out.
C23_TimeoutNotRetriedInline ==
    \A i \in 1..Len(fetching.attempts) :
        fetching.attempts[i] = "timeout" => i = Len(fetching.attempts)

\* C24: the team-name score is commutative, it is 1.0 for a non-empty name
\* scored against itself, and it lies in [0, 1].
Scoring == resolved.op = "_calculate_team_match_score"
ScoreCommutes ==
    RatEq(resolved.score, calculate_team_match_score(resolved.team2, resolved.team1))
ScoreReflexive ==
    (resolved.team1 = resolved.team2 /\ resolved.team1 # << >>)
        => RatEq(resolved.score, <<1, 1>>)
ScoreInRange == RatGE(resolved.score, <<0, 1>>) /\ RatGE(<<1, 1>>, resolved.score)
C24_TeamMatchScoreAlgebra ==
    Scoring => (ScoreCommutes /\ ScoreReflexive /\ ScoreInRange)
\* The two parts of C24 that hold.
C24_ReflexiveAndInRange == Scoring => (ScoreReflexive /\ ScoreInRange)

\* C25: both name normalizations are idempotent, and two spellings of a name
\* that differ only in case and accents normalize to the same text.
C25_NormalizationIdempotentCaseAccent ==
    resolved.op = "normalize" =>
        /\ resolved.lineup_again = resolved.lineup
        /\ resolved.odds_again = resolved.odds
        /\ resolved.lineup_other = resolved.lineup
        /\ resolved.odds_other = resolved.odds
C25_Witness ==
    /\ resolved.op = "normalize"
    /\ resolved.name = <<" ", "D", "É">>
    /\ resolved.other = <<" ", "d", "e">>
    /\ resolved.lineup = <<"d", "e">>
    /\ resolved.odds = <<"d", "e">>

\* C26: when an odds merge attaches an over/under history to a player whose
\* quote carries an assists line or a rebounds line, the history was
\* evaluated against those lines too, for a STARTER and for a BENCH player.
AgainstQuoteLines(m) ==
    (m.over_under_history # None /\ (m.assists_line # None \/ m.rebounds_line # None))
        => /\ m.over_under_history[1].assists_line = m.assists_line
           /\ m.over_under_history[1].rebounds_line = m.rebounds_line
C26_HistoryAgainstAllLines ==
    \A lineup \in get_lineup_by_game_id(rows), q \in QuoteSeqs, api_up \in BOOLEAN :
        \A merged \in {match_players_with_odds(rows, lineup, q, roster, api_up)} :
            \A i \in 1..Len(merged.matched_players) :
                AgainstQuoteLines(merged.matched_players[i])
\* The same for the STARTER players alone.
C26_StartersAgainstAllLines ==
    \A lineup \in get_lineup_by_game_id(rows), q \in QuoteSeqs, api_up \in BOOLEAN :
        \A merged \in {match_players_with_odds(rows, lineup, q, roster, api_up)} :
            \A i \in 1..Len(merged.matched_players) :
                merged.matched_players[i].player_status = STARTER
                    => AgainstQuoteLines(merged.matched_players[i])

\* C27: all rows of game_lineups of the game and one team carry the same
\* lineup_date, whether a lineup import or an odds merge wrote them, so the
\* delete of a lineup import (by game, date, team) covers every BENCH row
\* an earlier odds merge created.
C27_OneDatePerGameTeam ==
    \A r, q \in rows : r.team = q.team => r.lineup_date = q.lineup_date

\* C28: a lineup import leaves the points, assists and rebounds lines that
\* an earlier odds merge attached to a player as they were.
HasLines(r) ==
    r.points_line # None \/ r.assists_line # None \/ r.rebounds_line # None
SameLines(r, q) ==
    /\ q.team = r.team /\ q.player_id = r.player_id
    /\ q.points_line = r.points_line
    /\ q.assists_line = r.assists_line
    /\ q.rebounds_line = r.rebounds_line
LineupImportStep == steps' = steps + 1 /\ last'.op \in LineupImport
C28_ImportKeepsLines ==
    [][LineupImportStep =>
          \A r \in rows : HasLines(r) => \E q \in rows' : SameLines(r, q)]_vars

\* C29: a lineup import is all-or-nothing per team of the game: when an
\* insert of a STARTER or BENCH row has failed after the team's rows were
\* deleted, the rows the team had before the import are still there.
C29_ImportAllOrNothing ==
    race.phase = "returned" =>
        \A team \in race.failed :
            {r \in race.before : r.team = team /\ r.lineup_date = race.date}
                \subseteq rows

\* C30: the lineup import and the odds merge agree on which names are the
\* same: a published name matches a roster name exactly in the one if and
\* only if it does in the other.
C30_SameNameIdentity ==
    resolved.op = "match" => (resolved.lineup <=> resolved.odds)
\* One direction holds: what the lineup import matches, the odds merge
\* matches as well.
C30_LineupMatchIsOddsMatch ==
    resolved.op = "match" => (resolved.lineup => resolved.odds)

====
